---- MODULE Spec2Model ----
(***************************************************************************)
(* Dashboard of the vitamin dispenser: the useRealtimeData hook, the       *)
(* sensor event derivation effect of DashboardContent, the bounded event   *)
(* log and the system status classifier.                                   *)
(*                                                                         *)
(* A sensor snapshot is the record                                         *)
(*   [bottleCount |-> <<c1, c2, c3>>,   bottle1Count .. bottle3Count       *)
(*    dht         |-> <<d1, d2, d3>>,   dht1 .. dht3, each <<temperature,  *)
(*                                      humidity>> or <<>> when the field  *)
(*                                      is missing (dhtN?.x ?? 0)          *)
(*    fanStatus, isDispensing |-> BOOLEAN]                                  *)
(* Temperatures and humidities are whole numbers here; the thresholds      *)
(* compare them exactly as the code does.  The rendered message text of    *)
(* an event is not modelled; its id, type, timestamp and data are.         *)
(*                                                                         *)
(* Also the nutrition analysis page (app/analyse): the calorie requirement *)
(* estimator, the intake totals, the nutrient comparator and the pill      *)
(* recommendation; and the nutrition page (app/nutrition) with its         *)
(* shortage and excess lists.  Fractions are computed exactly, in          *)
(* thousandths or as numerator and denominator.                            *)
(*                                                                         *)
(* Further: reading a nutrient from a food table row (getNumberField,      *)
(* getNutrient), the dashboard's diet and disease risk matcher             *)
(* (handleAnalyze), the teardown of useRealtimeData subscriptions, the     *)
(* bottle card's refill and dispense controls with useDeviceControl, and   *)
(* dispenseSupplementsToDispenser of lib/dispenser.  Texts that are        *)
(* searched or parsed are sequences of pieces or characters.               *)
(***************************************************************************)
EXTENDS Integers, Sequences, FiniteSets, TLC

VARIABLES
    data,             \* useRealtimeData: const [data, setData]
    loading,          \* useRealtimeData: const [loading, setLoading]
    error,            \* useRealtimeData: const [error, setError]
    retryCount,       \* useRealtimeData: const [retryCount, setRetryCount]
    listening,        \* the onValue listener of the current subscription is live
    renderPending,    \* data, loading or error changed since the last render
    depsChanged,      \* [sensorData, loading] changed since the effect last ran
    systemStatus,     \* DashboardContent: const systemStatus, as last rendered
    previousDataRef,  \* DashboardContent: previousDataRef.current
    events,           \* DashboardContent: const [events, setEvents]
    lastUpdate,       \* DashboardContent: const [lastUpdate, setLastUpdate],
                      \*   <<>> for null and <<t>> for a Date
    rafQueue,         \* callbacks handed to requestAnimationFrame, not yet run
    now,              \* the value Date.now() returns
    delivered,        \* history: snapshots handed to the hook's value callback
    passLog,          \* history: [prev, cur, newEvents] of every run of the
                      \*   effect that got past its guard, oldest first
    lastDropped       \* history: the events the latest setEvents sliced off

\* The nutrition analysis page (app/analyse): state and useMemo values.
VARIABLES
    profile,              \* AnalysisPage: const [profile, setProfile]
    pillConfig,           \* AnalysisPage: const [pillConfig, setPillConfig]
    selectedDiseases,     \* AnalysisPage: const [selectedDiseases, ...]
    selectedFoods,        \* AnalysisPage: const [selectedFoods, ...]
    totalNutrition,       \* AnalysisPage: useMemo totalNutrition
    calorieNeeds,         \* AnalysisPage: useMemo calorieNeeds
    nutrientStats,        \* AnalysisPage: useMemo nutrientStats
    pillRecommendations   \* AnalysisPage: useMemo pillRecommendations

\* The nutrition page (app/nutrition): state and useMemo values.
VARIABLES
    nutritionFoods,       \* NutritionPage: const [selectedFoods, ...]
    summary,              \* NutritionPage: useMemo summary
    nutritionStats,       \* NutritionPage: useMemo nutrientStats
    shortageList,         \* NutritionPage: useMemo shortageList
    overList              \* NutritionPage: useMemo overList

VARIABLES
    diseaseRules,         \* DashboardContent: useState diseaseRules
    loadingRules,         \* DashboardContent: useState loadingRules
    rulesError,           \* DashboardContent: useState rulesError (TRUE: a message)
    foodInput,            \* DashboardContent: useState foodInput
    dashboardDiseases,    \* DashboardContent: useState selectedDiseases
    riskResults,          \* DashboardContent: useState riskResults
    toast,                \* the toast shown last
    isSubscribed,         \* useRealtimeData: the isSubscribed flag of each effect run
    mounted,              \* the component using useRealtimeData is mounted
    staleCalls,           \* callbacks invoked for subscriptions already torn down
    storedCount,          \* datastore: sensors/bottle1Count
    pillCount,            \* BottleCard prop pillCount of bottle 1, in each browser
    refill,               \* each browser's refill of bottle 1: position, amount, value read
    refillsStarted,       \* refills requested so far
    deviceDispensed,      \* pills the device has dispensed so far
    dispenseCount,        \* BottleCard: useState dispenseCount (browser 1)
    cardLoading,          \* BottleCard: useState isLoading / useDeviceControl isExecuting
    control,              \* datastore: control/dispense, with the pill count at the click
    slots,                \* datastore: dispenser/slots/{slotId}/count
    drop,                 \* the running call of dispenseSupplementsToDispenser
    lastDrop,             \* datastore: dispenser/lastDrop items
    foodRow,              \* a row of the food table, as parseCsv or JSON delivers it
    extracted             \* the protein per 100 g both pages read from foodRow

dashboardVars == <<data, loading, error, retryCount, listening, renderPending,
                   depsChanged, systemStatus, previousDataRef, events, lastUpdate,
                   rafQueue, now, delivered, passLog, lastDropped>>

analyseVars == <<profile, pillConfig, selectedDiseases, selectedFoods,
                 totalNutrition, calorieNeeds, nutrientStats, pillRecommendations>>

nutritionVars == <<nutritionFoods, summary, nutritionStats, shortageList, overList>>

extractVars == <<foodRow, extracted>>

riskVars == <<diseaseRules, loadingRules, rulesError, foodInput, dashboardDiseases,
              riskResults, toast>>

hookVars == <<isSubscribed, mounted, staleCalls>>

bottleVars == <<storedCount, pillCount, refill, refillsStarted, deviceDispensed,
                dispenseCount, cardLoading, control>>

dropVars == <<slots, drop, lastDrop>>

restVars == <<extractVars, riskVars, bottleVars, dropVars>>

otherVars == <<restVars, hookVars>>

vars == <<dashboardVars, analyseVars, nutritionVars, otherVars>>

\* ------------------------------------------------------------------ bounds
MaxDeliveries == 3
MaxClock == 1
MaxRetries == 1
MaxPassClock == 1
MaxTickCall == 3
MaxRunDeliveries == 4
MaxRunClock == 1
MaxLogDeliveries == 8
MaxLogClock == 1

\* ------------------------------------------------------- program constants
TempCriticalLimit == 35
TempWarningLimit == 30
HumidityLimit == 70
LowPillLimit == 5
MaxEvents == 50
MaxItems == 15
ErrorTempLimit == 35

NULL == [isNull |-> TRUE]

Bottles == <<1, 2, 3>>

\* ActivityEventType
PILL_DISPENSED == "pill_dispensed"
FAN_ON == "fan_on"
FAN_OFF == "fan_off"
TEMP_WARNING == "temp_warning"
TEMP_CRITICAL == "temp_critical"
HUMIDITY_WARNING == "humidity_warning"
PILL_LOW == "pill_low"

\* SystemStatus
IDLE == "idle"
DISPENSING == "dispensing"
COOLING == "cooling"
ERROR == "error"
OFFLINE == "offline"
NotRendered == "not_rendered"

\* The initialValue DashboardContent passes to useRealtimeData.
InitialValue ==
    [bottleCount |-> <<18, 18, 6>>,
     dht |-> << <<0, 0>>, <<0, 0>>, <<0, 0>> >>,
     fanStatus |-> FALSE,
     isDispensing |-> FALSE]

\* dhtN?.temperature ?? 0 and dhtN?.humidity ?? 0
Temperature(d) == IF d = <<>> THEN 0 ELSE d[1]
Humidity(d) == IF d = <<>> THEN 0 ELSE d[2]

\* The id suffixes of the template literals `${Date.now()}_...`.
DispensedSuffix == <<"bottle1_dispensed", "bottle2_dispensed", "bottle3_dispensed">>
TempCriticalSuffix ==
    <<"temp_critical_bottle1", "temp_critical_bottle2", "temp_critical_bottle3">>
TempWarningSuffix ==
    <<"temp_warning_bottle1", "temp_warning_bottle2", "temp_warning_bottle3">>
HumiditySuffix ==
    <<"humidity_warning_bottle1", "humidity_warning_bottle2",
      "humidity_warning_bottle3">>
LowSuffix == <<"bottle1_low", "bottle2_low", "bottle3_low">>

\* One newEvents.push(...) before its two Date.now() calls are evaluated.
Push(suffix, type, payload) == <<[suffix |-> suffix, type |-> type, data |-> payload]>>

\* ------------------------------------------- sensor event derivation effect
\* Bottle N dispense detection.
BottleDispensed_AnyChange(prevData, sensorData, b) ==
    IF sensorData.bottleCount[b] # prevData.bottleCount[b]
    THEN Push(DispensedSuffix[b], PILL_DISPENSED,
              [bottleId |-> b,
               count |-> prevData.bottleCount[b] - sensorData.bottleCount[b]])
    ELSE <<>>

BottleDispensed(prevData, sensorData, b) ==
    IF sensorData.bottleCount[b] < prevData.bottleCount[b]
    THEN Push(DispensedSuffix[b], PILL_DISPENSED,
              [bottleId |-> b,
               count |-> prevData.bottleCount[b] - sensorData.bottleCount[b]])
    ELSE <<>>

\* avgTemp: the sum of the three temperatures over 3, kept as a fraction.
AvgTemp(sensorData) ==
    [num |-> Temperature(sensorData.dht[1]) + Temperature(sensorData.dht[2])
                + Temperature(sensorData.dht[3]),
     den |-> 3]

\* Fan status change detection.
FanChange_PreviousTemp(prevData, sensorData) ==
    IF sensorData.fanStatus # prevData.fanStatus
    THEN IF sensorData.fanStatus = TRUE
         THEN Push("fan_on", FAN_ON, [temperature |-> AvgTemp(prevData)])
         ELSE Push("fan_off", FAN_OFF, [temperature |-> AvgTemp(prevData)])
    ELSE <<>>

FanChange(prevData, sensorData) ==
    IF sensorData.fanStatus # prevData.fanStatus
    THEN IF sensorData.fanStatus = TRUE
         THEN Push("fan_on", FAN_ON, [temperature |-> AvgTemp(sensorData)])
         ELSE Push("fan_off", FAN_OFF, [temperature |-> AvgTemp(sensorData)])
    ELSE <<>>

\* bottles.forEach body, temperature part: if / else if.
TemperatureAlert_TwoIfs(prevData, sensorData, b) ==
    LET currentTemp == Temperature(sensorData.dht[b])
        prevTemp == Temperature(prevData.dht[b])
    IN  (IF currentTemp > TempCriticalLimit /\ prevTemp <= TempCriticalLimit
         THEN Push(TempCriticalSuffix[b], TEMP_CRITICAL,
                   [temperature |-> currentTemp, bottleId |-> b])
         ELSE <<>>)
        \o (IF currentTemp > TempWarningLimit /\ prevTemp <= TempWarningLimit
            THEN Push(TempWarningSuffix[b], TEMP_WARNING,
                      [temperature |-> currentTemp, bottleId |-> b])
            ELSE <<>>)

TemperatureAlert_LevelCheck(prevData, sensorData, b) ==
    LET currentTemp == Temperature(sensorData.dht[b])
        prevTemp == Temperature(prevData.dht[b])
    IN  IF currentTemp > TempCriticalLimit
        THEN Push(TempCriticalSuffix[b], TEMP_CRITICAL,
                  [temperature |-> currentTemp, bottleId |-> b])
        ELSE IF /\ currentTemp > TempWarningLimit
                /\ currentTemp <= TempCriticalLimit
                /\ prevTemp <= TempWarningLimit
             THEN Push(TempWarningSuffix[b], TEMP_WARNING,
                       [temperature |-> currentTemp, bottleId |-> b])
             ELSE <<>>

TemperatureAlert(prevData, sensorData, b) ==
    LET currentTemp == Temperature(sensorData.dht[b])
        prevTemp == Temperature(prevData.dht[b])
    IN  IF currentTemp > TempCriticalLimit /\ prevTemp <= TempCriticalLimit
        THEN Push(TempCriticalSuffix[b], TEMP_CRITICAL,
                  [temperature |-> currentTemp, bottleId |-> b])
        ELSE IF /\ currentTemp > TempWarningLimit
                /\ currentTemp <= TempCriticalLimit
                /\ prevTemp <= TempWarningLimit
             THEN Push(TempWarningSuffix[b], TEMP_WARNING,
                       [temperature |-> currentTemp, bottleId |-> b])
             ELSE <<>>

\* bottles.forEach body, humidity part.
HumidityAlert(prevData, sensorData, b) ==
    LET currentHumidity == Humidity(sensorData.dht[b])
        prevHumidity == Humidity(prevData.dht[b])
    IN  IF currentHumidity > HumidityLimit /\ prevHumidity <= HumidityLimit
        THEN Push(HumiditySuffix[b], HUMIDITY_WARNING,
                  [humidity |-> currentHumidity, bottleId |-> b])
        ELSE <<>>

\* Bottle N low stock warning.
BottleLow_LevelCheck(prevData, sensorData, b) ==
    IF sensorData.bottleCount[b] < LowPillLimit
    THEN Push(LowSuffix[b], PILL_LOW,
              [bottleId |-> b, pillCount |-> sensorData.bottleCount[b]])
    ELSE <<>>

BottleLow(prevData, sensorData, b) ==
    IF /\ sensorData.bottleCount[b] < LowPillLimit
       /\ prevData.bottleCount[b] >= LowPillLimit
    THEN Push(LowSuffix[b], PILL_LOW,
              [bottleId |-> b, pillCount |-> sensorData.bottleCount[b]])
    ELSE <<>>

\* The pushes of one pass, in the order of the code.
Pushes(prevData, sensorData) ==
       BottleDispensed(prevData, sensorData, 1)
    \o BottleDispensed(prevData, sensorData, 2)
    \o BottleDispensed(prevData, sensorData, 3)
    \o FanChange(prevData, sensorData)
    \o TemperatureAlert(prevData, sensorData, 1)
    \o HumidityAlert(prevData, sensorData, 1)
    \o TemperatureAlert(prevData, sensorData, 2)
    \o HumidityAlert(prevData, sensorData, 2)
    \o TemperatureAlert(prevData, sensorData, 3)
    \o HumidityAlert(prevData, sensorData, 3)
    \o BottleLow(prevData, sensorData, 1)
    \o BottleLow(prevData, sensorData, 2)
    \o BottleLow(prevData, sensorData, 3)

\* The k-th Date.now() call of a pass that starts at clock value t0; the clock
\* moves on by one just before call number tickAt (tickAt = 0: it does not,
\* tickAt = 1: it has moved on since the pass before).
DateNow(t0, tickAt, k) == IF tickAt # 0 /\ k >= tickAt THEN t0 + 1 ELSE t0

\* Each push evaluates Date.now() twice: for the id, then for the timestamp.
Stamp(pushes, t0, tickAt) ==
    [i \in 1..Len(pushes) |->
        [id |-> <<DateNow(t0, tickAt, 2 * i - 1), pushes[i].suffix>>,
         type |-> pushes[i].type,
         timestamp |-> DateNow(t0, tickAt, 2 * i),
         data |-> pushes[i].data]]

\* newEvents of one run of the effect that got past  if (!sensorData || loading).
NewEvents_NoFirstLoadGuard(prevData, sensorData, t0, tickAt) ==
    Stamp(Pushes(IF prevData = NULL THEN InitialValue ELSE prevData, sensorData),
          t0, tickAt)

NewEvents_OncePerSession(prevData, sensorData, t0, tickAt) ==
    LET seen == UNION {{passLog[i].newEvents[k].id[2] :
                           k \in 1..Len(passLog[i].newEvents)} :
                       i \in 1..Len(passLog)}
        Fresh(e) == e.id[2] \notin seen
    IN  IF prevData = NULL
        THEN <<>>
        ELSE SelectSeq(Stamp(Pushes(prevData, sensorData), t0, tickAt), Fresh)

NewEvents(prevData, sensorData, t0, tickAt) ==
    IF prevData = NULL
    THEN <<>>
    ELSE Stamp(Pushes(prevData, sensorData), t0, tickAt)

\* setEvents((prev) => [...newEvents, ...prev].slice(0, 50))
Slice(s, n) == SubSeq(s, 1, IF Len(s) < n THEN Len(s) ELSE n)
SetEvents_Append(prev, newEvents) == Slice(prev \o newEvents, MaxEvents)
SetEvents(prev, newEvents) == Slice(newEvents \o prev, MaxEvents)
Dropped(prev, newEvents) ==
    SubSeq(newEvents \o prev, MaxEvents + 1, Len(newEvents) + Len(prev))

\* The callbacks the effect hands to requestAnimationFrame.
Callbacks(t0, newEvents) ==
    <<[kind |-> "setLastUpdate", at |-> t0]>>
    \o (IF Len(newEvents) > 0
        THEN <<[kind |-> "setEvents", newEvents |-> newEvents]>>
        ELSE <<>>)

\* Where the clock may move on in a pass: before one of its first MaxTickCall
\* Date.now() calls or, when it makes fewer, after the last one; and only
\* below the bound of the model.
TickChoices(prevData, sensorData, maxClock) ==
    LET calls == 2 * Len(NewEvents(prevData, sensorData, 0, 0))
    IN  {0} \cup (IF now < maxClock
                  THEN 1..(IF calls + 1 < MaxTickCall THEN calls + 1 ELSE MaxTickCall)
                  ELSE {})

\* getSystemStatus of DashboardContent.
Max3(a, b, c) ==
    IF a >= b /\ a >= c THEN a ELSE IF b >= c THEN b ELSE c

getSystemStatus_ErrorFirst(sensorData) ==
    IF sensorData = NULL THEN OFFLINE
    ELSE IF Max3(Temperature(sensorData.dht[1]), Temperature(sensorData.dht[2]),
                 Temperature(sensorData.dht[3])) > ErrorTempLimit
         THEN ERROR
         ELSE IF sensorData.isDispensing THEN DISPENSING
         ELSE IF sensorData.fanStatus = TRUE THEN COOLING
         ELSE IDLE

getSystemStatus(sensorData) ==
    IF sensorData = NULL THEN OFFLINE
    ELSE IF sensorData.isDispensing THEN DISPENSING
    ELSE IF sensorData.fanStatus = TRUE THEN COOLING
    ELSE IF Max3(Temperature(sensorData.dht[1]), Temperature(sensorData.dht[2]),
                 Temperature(sensorData.dht[3])) > ErrorTempLimit
         THEN ERROR
         ELSE IDLE

\* What a render of DashboardContent leaves as systemStatus: the loading and
\* the error screen return before getSystemStatus is reached.
RenderedStatus(sensorData, isLoading, hasError) ==
    IF isLoading \/ hasError THEN NotRendered ELSE getSystemStatus(sensorData)

\* A render of DashboardContent and, when [sensorData, loading] changed, the
\* useEffect(() => {...}, [sensorData, loading]) that follows its commit.
\* State set in one handler is rendered once, and so is state set by several
\* handlers that ran before the render.
Render(maxClock) ==
    /\ renderPending
    /\ renderPending' = FALSE
    /\ depsChanged' = FALSE
    /\ systemStatus' = RenderedStatus(data, loading, error)
    /\ IF ~depsChanged \/ data = NULL \/ loading
       THEN UNCHANGED <<previousDataRef, rafQueue, now, passLog>>
       ELSE \E tickAt \in TickChoices(previousDataRef, data, maxClock) :
              LET newEvents == NewEvents(previousDataRef, data, now, tickAt)
              IN  /\ rafQueue' = rafQueue \o Callbacks(now, newEvents)
                  /\ previousDataRef' = data
                  /\ now' = IF tickAt = 0 THEN now ELSE now + 1
                  /\ passLog' = Append(passLog, [prev |-> previousDataRef,
                                                 cur |-> data,
                                                 newEvents |-> newEvents])
    /\ UNCHANGED <<analyseVars, nutritionVars, otherVars>>
    /\ UNCHANGED <<data, loading, error, retryCount, listening, events,
                   lastUpdate, delivered, lastDropped>>

\* The browser runs the queued animation-frame callbacks, in order.
RECURSIVE RunEvents(_, _)
RunEvents(queue, prev) ==
    IF queue = <<>>
    THEN prev
    ELSE RunEvents(Tail(queue),
                   IF Head(queue).kind = "setEvents"
                   THEN SetEvents(prev, Head(queue).newEvents)
                   ELSE prev)

RECURSIVE RunDropped(_, _)
RunDropped(queue, prev) ==
    IF queue = <<>>
    THEN <<>>
    ELSE IF Head(queue).kind = "setEvents"
         THEN Dropped(prev, Head(queue).newEvents)
              \o RunDropped(Tail(queue), SetEvents(prev, Head(queue).newEvents))
         ELSE RunDropped(Tail(queue), prev)

RECURSIVE RunLastUpdate(_, _)
RunLastUpdate(queue, prev) ==
    IF queue = <<>>
    THEN prev
    ELSE RunLastUpdate(Tail(queue),
                       IF Head(queue).kind = "setLastUpdate"
                       THEN <<Head(queue).at>>
                       ELSE prev)

AnimationFrame ==
    /\ rafQueue # <<>>
    /\ events' = RunEvents(rafQueue, events)
    /\ lastUpdate' = RunLastUpdate(rafQueue, lastUpdate)
    /\ lastDropped' = RunDropped(rafQueue, events)
    /\ rafQueue' = <<>>
    /\ UNCHANGED <<analyseVars, nutritionVars, otherVars>>
    /\ UNCHANGED <<data, loading, error, retryCount, listening, renderPending,
                   depsChanged, systemStatus, previousDataRef, now, delivered,
                   passLog>>

\* ---------------------------------------------------------------- ActivityLog
\* Array.prototype.sort with (a, b) => b.timestamp - a.timestamp: descending by
\* timestamp, stable, so events of equal timestamp keep their order.
RECURSIVE SortDescFrom(_, _)
SortDescFrom(list, stamps) ==
    IF stamps = {}
    THEN <<>>
    ELSE LET t == CHOOSE x \in stamps : \A y \in stamps : y <= x
             At(e) == e.timestamp = t
         IN  SelectSeq(list, At) \o SortDescFrom(list, stamps \ {t})

SortDesc(list) ==
    SortDescFrom(list, {list[i].timestamp : i \in 1..Len(list)})

sortedEvents(list, maxItems) == Slice(SortDesc(list), maxItems)

\* ---------------------------------------------------------- useRealtimeData
\* onValue value callback, snapshot.exists(): a new object each time.
OnValue(snapshots, maxDeliveries) ==
    /\ listening
    /\ delivered < maxDeliveries
    /\ \E value \in snapshots : data' = value
    /\ error' = FALSE
    /\ loading' = FALSE
    /\ renderPending' = TRUE
    /\ depsChanged' = TRUE
    /\ delivered' = delivered + 1
    /\ UNCHANGED <<analyseVars, nutritionVars, otherVars>>
    /\ UNCHANGED <<systemStatus, retryCount, listening, previousDataRef, events, lastUpdate,
                   rafQueue, now, passLog, lastDropped>>

\* onValue value callback, !snapshot.exists(): the initial value is used.
OnValueEmpty(maxDeliveries) ==
    /\ listening
    /\ delivered < maxDeliveries
    /\ data' = InitialValue
    /\ loading' = FALSE
    /\ renderPending' = TRUE
    /\ depsChanged' = TRUE
    /\ delivered' = delivered + 1
    /\ UNCHANGED <<analyseVars, nutritionVars, otherVars>>
    /\ UNCHANGED <<systemStatus, error, retryCount, listening, previousDataRef, events,
                   lastUpdate, rafQueue, now, passLog, lastDropped>>

\* onValue error callback; the datastore cancels the listener with it.
OnError ==
    /\ listening
    /\ ~error
    /\ error' = TRUE
    /\ loading' = FALSE
    /\ listening' = FALSE
    /\ renderPending' = TRUE
    /\ depsChanged' = (depsChanged \/ loading)
    /\ UNCHANGED <<analyseVars, nutritionVars, otherVars>>
    /\ UNCHANGED <<systemStatus, data, retryCount, previousDataRef, events, lastUpdate,
                   rafQueue, now, delivered, passLog, lastDropped>>

\* retry(), the button of the error screen; the effect's cleanup clears the
\* flag of the old subscription and the effect subscribes again.
Retry(maxRetries) ==
    /\ mounted
    /\ error /\ ~loading
    /\ retryCount < maxRetries
    /\ retryCount' = retryCount + 1
    /\ error' = FALSE
    /\ loading' = TRUE
    /\ listening' = TRUE
    /\ isSubscribed' = Append([i \in 1..Len(isSubscribed) |-> FALSE], TRUE)
    /\ renderPending' = TRUE
    /\ depsChanged' = TRUE
    /\ UNCHANGED <<analyseVars, nutritionVars, restVars, mounted, staleCalls>>
    /\ UNCHANGED <<systemStatus, data, previousDataRef, events, lastUpdate,
                   rafQueue, now, delivered, passLog, lastDropped>>

\* The component unmounts: the effect's cleanup clears the flag and detaches
\* the listener.
Unmount ==
    /\ mounted
    /\ mounted' = FALSE
    /\ listening' = FALSE
    /\ isSubscribed' = [i \in 1..Len(isSubscribed) |-> FALSE]
    /\ UNCHANGED <<analyseVars, nutritionVars, restVars, staleCalls>>
    /\ UNCHANGED <<systemStatus, data, loading, error, retryCount, renderPending,
                   depsChanged, previousDataRef, events, lastUpdate, rafQueue, now,
                   delivered, passLog, lastDropped>>

\* The subscriptions whose effect has been cleaned up.
TornDown == {sub \in 1..Len(isSubscribed) : sub < Len(isSubscribed) \/ ~mounted}

\* if (!isSubscribed) return;
StillSubscribed_Unguarded(sub) == TRUE

StillSubscribed(sub) == isSubscribed[sub]

\* The value callback of a subscription that was torn down is invoked.
OldValue(snapshots, maxStaleCalls) ==
    \E sub \in TornDown, value \in snapshots :
        /\ staleCalls < maxStaleCalls
        /\ staleCalls' = staleCalls + 1
        /\ IF StillSubscribed(sub)
           THEN /\ data' = value
                /\ error' = FALSE
                /\ loading' = FALSE
                /\ renderPending' = TRUE
                /\ depsChanged' = TRUE
           ELSE UNCHANGED <<data, error, loading, renderPending, depsChanged>>
        /\ UNCHANGED <<analyseVars, nutritionVars, restVars, isSubscribed, mounted>>
        /\ UNCHANGED <<systemStatus, retryCount, listening, previousDataRef, events,
                       lastUpdate, rafQueue, now, delivered, passLog, lastDropped>>

\* The error callback of a subscription that was torn down is invoked.
OldError(maxStaleCalls) ==
    \E sub \in TornDown :
        /\ staleCalls < maxStaleCalls
        /\ staleCalls' = staleCalls + 1
        /\ IF StillSubscribed(sub)
           THEN /\ error' = TRUE
                /\ loading' = FALSE
                /\ renderPending' = TRUE
                /\ depsChanged' = (depsChanged \/ loading)
           ELSE UNCHANGED <<error, loading, renderPending, depsChanged>>
        /\ UNCHANGED <<analyseVars, nutritionVars, restVars, isSubscribed, mounted>>
        /\ UNCHANGED <<systemStatus, data, retryCount, listening, previousDataRef, events,
                       lastUpdate, rafQueue, now, delivered, passLog, lastDropped>>

\* The hook after its first effect has subscribed.
HookMount ==
    /\ isSubscribed = <<TRUE>>
    /\ mounted = TRUE
    /\ staleCalls = 0

\* ------------------------------------------------------- app/analyse/page.tsx
\* Numbers.  A nullable number is <<>> for null or undefined and <<n>> for n.
\* Quantities of food (kcal, g of carbohydrate, protein, fat) are counted in
\* thousandths; a per-100g value of the food table is given in tenths and a
\* portion in whole grams, so value/10 * grams/100 is value * grams
\* thousandths.  Requirements (kcal, g) are whole numbers.

\* Math.round(n / d) for d > 0: the nearest integer, a half rounded up.
Round(n, d) == (2 * n + d) \div (2 * d)

\* !x for a nullable number: null, undefined and 0 are falsy.
Falsy(x) == x = <<>> \/ x = <<0>>

\* a ?? b for nullable numbers.
OrElse(a, b) == IF a = <<>> THEN b ELSE a

NO_PROFILE_REASON == "no profile, default value used"
INCOMPLETE_REASON == "height/weight/age missing, average by sex used"
FORMULA_REASON == "Mifflin-St Jeor with activity level"

\* activityMap[activityLevel ?? ""] ?? 1.2, in thousandths.
ActivityFactor(activityLevel) ==
    CASE activityLevel = "" -> 1200
      [] activityLevel = "sedentary" -> 1200
      [] activityLevel = "light" -> 1375
      [] activityLevel = "moderate" -> 1550
      [] activityLevel = "active" -> 1725
      [] activityLevel = "very_active" -> 1900
      [] OTHER -> 1200

\* The sex-based flat value of an incomplete profile.
SexFallback(sex) ==
    IF sex = "female" THEN 1800 ELSE IF sex = "male" THEN 2200 ELSE 2000

\* base = 10 * weightKg + 6.25 * heightCm - 5 * age + (5 | -161 | 0), in
\* quarters of a kcal.
Base4(p) ==
    40 * p.weightKg[1] + 25 * p.heightCm[1] - 20 * p.age[1]
    + 4 * (IF p.sex = "male" THEN 5 ELSE IF p.sex = "female" THEN -161 ELSE 0)

estimateCalorieNeeds_FlatFallback(p) ==
    IF p = NULL
    THEN [recommended |-> <<>>, bmr |-> <<>>, activityFactor |-> <<>>,
          reason |-> NO_PROFILE_REASON, fallback |-> <<2000>>]
    ELSE IF Falsy(p.age) \/ Falsy(p.heightCm) \/ Falsy(p.weightKg) \/ p.sex = ""
    THEN [recommended |-> <<>>, bmr |-> <<>>,
          activityFactor |-> <<ActivityFactor(p.activityLevel)>>,
          reason |-> NO_PROFILE_REASON, fallback |-> <<2000>>]
    ELSE [recommended |-> <<Round(Base4(p) * ActivityFactor(p.activityLevel), 4000)>>,
          bmr |-> <<Round(Base4(p), 4)>>,
          activityFactor |-> <<ActivityFactor(p.activityLevel)>>,
          reason |-> FORMULA_REASON, fallback |-> <<>>]

estimateCalorieNeeds_Sedentary(p) ==
    IF p = NULL
    THEN [recommended |-> <<>>, bmr |-> <<>>, activityFactor |-> <<>>,
          reason |-> NO_PROFILE_REASON, fallback |-> <<2000>>]
    ELSE IF Falsy(p.age) \/ Falsy(p.heightCm) \/ Falsy(p.weightKg) \/ p.sex = ""
    THEN [recommended |-> <<SexFallback(p.sex)>>, bmr |-> <<>>,
          activityFactor |-> <<ActivityFactor(p.activityLevel)>>,
          reason |-> INCOMPLETE_REASON, fallback |-> <<SexFallback(p.sex)>>]
    ELSE [recommended |-> <<Round(Base4(p) * 1200, 4000)>>,
          bmr |-> <<Round(Base4(p), 4)>>,
          activityFactor |-> <<1200>>,
          reason |-> FORMULA_REASON, fallback |-> <<>>]

estimateCalorieNeeds(p) ==
    IF p = NULL
    THEN [recommended |-> <<>>, bmr |-> <<>>, activityFactor |-> <<>>,
          reason |-> NO_PROFILE_REASON, fallback |-> <<2000>>]
    ELSE IF Falsy(p.age) \/ Falsy(p.heightCm) \/ Falsy(p.weightKg) \/ p.sex = ""
    THEN [recommended |-> <<SexFallback(p.sex)>>, bmr |-> <<>>,
          activityFactor |-> <<ActivityFactor(p.activityLevel)>>,
          reason |-> INCOMPLETE_REASON, fallback |-> <<SexFallback(p.sex)>>]
    ELSE [recommended |-> <<Round(Base4(p) * ActivityFactor(p.activityLevel), 4000)>>,
          bmr |-> <<Round(Base4(p), 4)>>,
          activityFactor |-> <<ActivityFactor(p.activityLevel)>>,
          reason |-> FORMULA_REASON, fallback |-> <<>>]

\* A row of the food table as the getters read it: getFoodName and, per 100 g
\* and in tenths, getFoodKcalPer100g, getCarbsPer100g, getProteinPer100g and
\* getFatPer100g.  A selected food is [food |-> row, grams |-> g].
FoodRow(name, kcal, carbs, protein, fat) ==
    [name |-> name, kcal |-> kcal, carbs |-> carbs, protein |-> protein, fat |-> fat]

\* The running sum of per100g * (grams / 100) over the selected foods, in
\* thousandths.
SumOver_HeadOnly(foods, field) ==
    IF foods = <<>> THEN 0 ELSE Head(foods).food[field] * Head(foods).grams

RECURSIVE SumOver(_, _)
SumOver(foods, field) ==
    IF foods = <<>>
    THEN 0
    ELSE Head(foods).food[field] * Head(foods).grams + SumOver(Tail(foods), field)

\* useMemo totalNutrition: Math.round(kcal) and Math.round(x * 10) / 10.
TotalNutrition(foods) ==
    [calories |-> 1000 * Round(SumOver(foods, "kcal"), 1000),
     carbs |-> 100 * Round(SumOver(foods, "carbs"), 100),
     protein |-> 100 * Round(SumOver(foods, "protein"), 100),
     fat |-> 100 * Round(SumOver(foods, "fat"), 100)]

\* useMemo userRda.
UserRda(needs) ==
    [kcal |-> OrElse(OrElse(needs.recommended, needs.fallback), <<2000>>)[1],
     carb |-> 300, protein |-> 55, fat |-> 70]

\* useMemo intake.
Intake(total) ==
    [kcal |-> total.calories, carb |-> total.carbs,
     protein |-> total.protein, fat |-> total.fat]

NutrientKeys == <<"kcal", "carb", "protein", "fat">>

\* rda in whole units, intake in thousandths.
buildNutrientStats_Truncate(rda, intake) ==
    [i \in 1..4 |->
        LET key == NutrientKeys[i]
            required == rda[key]
            taken == intake[key]
        IN  [key |-> key, required |-> required, intake |-> taken,
             percent |-> IF required > 0
                         THEN (taken * 100) \div (required * 1000)
                         ELSE 0]]

buildNutrientStats(rda, intake) ==
    [i \in 1..4 |->
        LET key == NutrientKeys[i]
            required == rda[key]
            taken == intake[key]
        IN  [key |-> key, required |-> required, intake |-> taken,
             percent |-> IF required > 0
                         THEN Round(taken * 100, required * 1000)
                         ELSE 0]]

\* The fill colour of a nutrient's bar.
BarColor(percent) ==
    IF percent < 80 THEN "#10b981" ELSE IF percent <= 120 THEN "#f59e0b" ELSE "#ef4444"

\* Strings that are searched are sequences of pieces; s.includes(sub) looks
\* for sub as a run of consecutive pieces of s.  Korean pieces are written
\* romanised: bitamin (vitamin), jonghap (multi-), omega, cheolbun (iron),
\* simhyeolgwan (cardiovascular), gojihyeol (hyperlipid-), goldagong
\* (osteoporo-), ppyeo (bone), binhyeol (anemia).
Includes(str, sub) ==
    \E i \in 0..(Len(str) - Len(sub)) : SubSeq(str, i + 1, i + Len(sub)) = sub

LowerCasePiece(piece) ==
    CASE piece = "Iron" -> "iron"
      [] piece = "IRON" -> "iron"
      [] piece = "Cardio" -> "cardio"
      [] piece = "Osteo" -> "osteo"
      [] piece = "Anemia" -> "anemia"
      [] piece = "Hypertension" -> "hypertension"
      [] piece = "Salt" -> "salt"
      [] piece = "Increase" -> "increase"
      [] piece = "Risk" -> "risk"
      [] piece = "bitamin C" -> "bitamin c"
      [] OTHER -> piece

ToLowerCase(str) == [i \in 1..Len(str) |-> LowerCasePiece(str[i])]

DEFAULT_REASON == "one tablet, general daily amount"
LOW_INTAKE_REASON == "intake below requirement, one tablet to supplement"
HEART_REASON == "cardiovascular condition selected, one omega-3 tablet"
BONE_REASON == "bone condition selected, one vitamin D tablet"
ANEMIA_REASON == "anemia selected, one iron tablet"
CAUTION_SUFFIX == " (intake above requirement, take care with supplements)"

\* selectedDiseases.some(...)
HasHeartIssue(diseases) ==
    \E k \in 1..Len(diseases) :
        \/ Includes(diseases[k], <<"simhyeolgwan">>)
        \/ Includes(diseases[k], <<"gojihyeol">>)
        \/ Includes(ToLowerCase(diseases[k]), <<"cardio">>)
HasBoneIssue(diseases) ==
    \E k \in 1..Len(diseases) :
        \/ Includes(diseases[k], <<"goldagong">>)
        \/ Includes(diseases[k], <<"ppyeo">>)
        \/ Includes(ToLowerCase(diseases[k]), <<"osteo">>)
HasAnemia(diseases) ==
    \E k \in 1..Len(diseases) :
        \/ Includes(diseases[k], <<"binhyeol">>)
        \/ Includes(ToLowerCase(diseases[k]), <<"anemia">>)

\* ratio = totalCalories > 0 && recommended > 0 ? totalCalories / recommended
\* : 1, as a fraction; totalCalories in thousandths, recommended in kcal.
IntakeRatio(totalCalories, needs) ==
    LET recommended == OrElse(OrElse(needs.recommended, needs.fallback), <<2000>>)[1]
    IN  IF totalCalories > 0 /\ recommended > 0
        THEN [num |-> totalCalories, den |-> 1000 * recommended]
        ELSE [num |-> 1, den |-> 1]

\* ratio < 0.8 and ratio > 1.2 for a fraction of positive denominator.
BelowLow(ratio) == 10 * ratio.num < 8 * ratio.den
AboveHigh(ratio) == 10 * ratio.num > 12 * ratio.den

\* The justification of one bottle: the four rules in order, each replacing
\* the reason, then the caution; a reason is the sequence of its parts.
Reason_FirstRuleWins(name, ratio, diseases) ==
    LET base ==
            IF BelowLow(ratio)
               /\ (Includes(name, <<"jonghap", "bitamin">>) \/ Includes(name, <<"bitamin">>))
            THEN LOW_INTAKE_REASON
            ELSE IF HasHeartIssue(diseases) /\ Includes(name, <<"omega">>)
            THEN HEART_REASON
            ELSE IF HasBoneIssue(diseases) /\ Includes(name, <<"bitamin", " ", "D">>)
            THEN BONE_REASON
            ELSE IF HasAnemia(diseases)
                    /\ (Includes(name, <<"cheolbun">>)
                        \/ Includes(ToLowerCase(name), <<"iron">>))
            THEN ANEMIA_REASON
            ELSE DEFAULT_REASON
    IN  IF AboveHigh(ratio) THEN <<base, CAUTION_SUFFIX>> ELSE <<base>>

Reason_CautionOnDefault(name, ratio, diseases) ==
    LET anemia ==
            HasAnemia(diseases)
            /\ (Includes(name, <<"cheolbun">>) \/ Includes(ToLowerCase(name), <<"iron">>))
        bone == HasBoneIssue(diseases) /\ Includes(name, <<"bitamin", " ", "D">>)
        heart == HasHeartIssue(diseases) /\ Includes(name, <<"omega">>)
        low == BelowLow(ratio) /\ Includes(name, <<"bitamin">>)
        base == IF anemia THEN ANEMIA_REASON
                ELSE IF bone THEN BONE_REASON
                ELSE IF heart THEN HEART_REASON
                ELSE IF low THEN LOW_INTAKE_REASON
                ELSE DEFAULT_REASON
    IN  IF AboveHigh(ratio) /\ base = DEFAULT_REASON
        THEN <<base, CAUTION_SUFFIX>>
        ELSE <<base>>

Reason(name, ratio, diseases) ==
    LET r0 == DEFAULT_REASON
        r1 == IF BelowLow(ratio)
                 /\ (Includes(name, <<"jonghap", "bitamin">>)
                     \/ Includes(name, <<"bitamin">>))
              THEN LOW_INTAKE_REASON
              ELSE r0
        r2 == IF HasHeartIssue(diseases) /\ Includes(name, <<"omega">>)
              THEN HEART_REASON
              ELSE r1
        r3 == IF HasBoneIssue(diseases) /\ Includes(name, <<"bitamin", " ", "D">>)
              THEN BONE_REASON
              ELSE r2
        r4 == IF HasAnemia(diseases)
                 /\ (Includes(name, <<"cheolbun">>)
                     \/ Includes(ToLowerCase(name), <<"iron">>))
              THEN ANEMIA_REASON
              ELSE r3
    IN  IF AboveHigh(ratio) THEN <<r4, CAUTION_SUFFIX>> ELSE <<r4>>

\* bottleNames.forEach: a bottle without a name is skipped.
BottleRec_NoSkip(b, name, totalCalories, needs, diseases) ==
    <<[bottleId |-> b, pillName |-> name, count |-> 1,
       reason |-> Reason(name, IntakeRatio(totalCalories, needs), diseases)]>>

BottleRec(b, name, totalCalories, needs, diseases) ==
    IF name = <<>>
    THEN <<>>
    ELSE <<[bottleId |-> b, pillName |-> name, count |-> 1,
            reason |-> Reason(name, IntakeRatio(totalCalories, needs), diseases)]>>

computePillRecommendations(totalCalories, needs, diseases, config) ==
    IF config = NULL
    THEN <<>>
    ELSE BottleRec(1, config.bottle1, totalCalories, needs, diseases)
         \o BottleRec(2, config.bottle2, totalCalories, needs, diseases)
         \o BottleRec(3, config.bottle3, totalCalories, needs, diseases)

\* The useMemo values of the render that follows a change of state.
AnalyseMemos(p, config, diseases, foods) ==
    /\ totalNutrition' = TotalNutrition(foods)
    /\ calorieNeeds' = estimateCalorieNeeds(p)
    /\ nutrientStats' = buildNutrientStats(UserRda(estimateCalorieNeeds(p)),
                                           Intake(TotalNutrition(foods)))
    /\ pillRecommendations' =
          computePillRecommendations(TotalNutrition(foods).calories,
                                     estimateCalorieNeeds(p), diseases, config)

\* onAuthStateChanged without a user.
SignedOut ==
    /\ profile' = NULL
    /\ pillConfig' = NULL
    /\ AnalyseMemos(NULL, NULL, selectedDiseases, selectedFoods)
    /\ UNCHANGED <<selectedDiseases, selectedFoods, dashboardVars, nutritionVars, otherVars>>

\* onAuthStateChanged with a user: the profile snapshot has been read.
ProfileLoaded(profiles) ==
    \E p \in profiles \cup {NULL} :
        /\ profile' = p
        /\ AnalyseMemos(p, pillConfig, selectedDiseases, selectedFoods)
        /\ UNCHANGED <<pillConfig, selectedDiseases, selectedFoods, dashboardVars,
                       nutritionVars, otherVars>>

\* onAuthStateChanged with a user: the pillConfig snapshot has been read.
PillConfigLoaded(configs) ==
    \E config \in configs \cup {NULL} :
        /\ pillConfig' = config
        /\ AnalyseMemos(profile, config, selectedDiseases, selectedFoods)
        /\ UNCHANGED <<profile, selectedDiseases, selectedFoods, dashboardVars,
                       nutritionVars, otherVars>>

Without(list, x) == SelectSeq(list, LAMBDA y : y # x)
RemoveAt(list, index) ==
    SubSeq(list, 1, index - 1) \o SubSeq(list, index + 1, Len(list))
HasFood(foods, name) == \E k \in 1..Len(foods) : foods[k].food.name = name

toggleDisease(options) ==
    \E disease \in options :
        /\ selectedDiseases' =
              IF \E k \in 1..Len(selectedDiseases) : selectedDiseases[k] = disease
              THEN Without(selectedDiseases, disease)
              ELSE Append(selectedDiseases, disease)
        /\ AnalyseMemos(profile, pillConfig, selectedDiseases', selectedFoods)
        /\ UNCHANGED <<profile, pillConfig, selectedFoods, dashboardVars, nutritionVars, otherVars>>

handleAddFood(foodDb) ==
    \E row \in foodDb :
        /\ row.name # ""
        /\ ~HasFood(selectedFoods, row.name)
        /\ selectedFoods' = Append(selectedFoods, [food |-> row, grams |-> 100])
        /\ AnalyseMemos(profile, pillConfig, selectedDiseases, selectedFoods')
        /\ UNCHANGED <<profile, pillConfig, selectedDiseases, dashboardVars,
                       nutritionVars, otherVars>>

\* Number(e.target.value) || 0 for the text of the grams field: <<n>> is text
\* that reads as the number n, <<>> text that is empty or not a number.
TypedGrams(value) == IF value = <<>> \/ value = <<0>> THEN 0 ELSE value[1]

handleChangeGrams(typed) ==
    \E index \in 1..Len(selectedFoods), value \in typed :
        /\ selectedFoods' = [selectedFoods EXCEPT ![index].grams = TypedGrams(value)]
        /\ AnalyseMemos(profile, pillConfig, selectedDiseases, selectedFoods')
        /\ UNCHANGED <<profile, pillConfig, selectedDiseases, dashboardVars,
                       nutritionVars, otherVars>>

handleRemoveFood ==
    \E index \in 1..Len(selectedFoods) :
        /\ selectedFoods' = RemoveAt(selectedFoods, index)
        /\ AnalyseMemos(profile, pillConfig, selectedDiseases, selectedFoods')
        /\ UNCHANGED <<profile, pillConfig, selectedDiseases, dashboardVars,
                       nutritionVars, otherVars>>

\* The state after AnalysisPage has mounted.
AnalyseMount ==
    /\ profile = NULL
    /\ pillConfig = NULL
    /\ selectedDiseases = <<>>
    /\ selectedFoods = <<>>
    /\ totalNutrition = TotalNutrition(<<>>)
    /\ calorieNeeds = estimateCalorieNeeds(NULL)
    /\ nutrientStats = buildNutrientStats(UserRda(estimateCalorieNeeds(NULL)),
                                          Intake(TotalNutrition(<<>>)))
    /\ pillRecommendations = <<>>

\* ----------------------------------------------------- app/nutrition/page.tsx
\* useMemo summary: the sums as they are, in thousandths (totalGrams in g).
RECURSIVE TotalGrams(_)
TotalGrams(foods) ==
    IF foods = <<>> THEN 0 ELSE Head(foods).grams + TotalGrams(Tail(foods))

Summary(foods) ==
    [totalCalories |-> SumOver(foods, "kcal"),
     totalCarbs |-> SumOver(foods, "carbs"),
     totalProtein |-> SumOver(foods, "protein"),
     totalFat |-> SumOver(foods, "fat"),
     totalGrams |-> TotalGrams(foods)]

NutritionRda == [kcal |-> 2500, carb |-> 300, protein |-> 55, fat |-> 70]

NutritionIntake(sum) ==
    [kcal |-> sum.totalCalories, carb |-> sum.totalCarbs,
     protein |-> sum.totalProtein, fat |-> sum.totalFat]

ShortageList(stats) == SelectSeq(stats, LAMBDA st : st.percent < 100)
OverList(stats) == SelectSeq(stats, LAMBDA st : st.percent > 100)

NutritionMemos(foods) ==
    LET stats == buildNutrientStats(NutritionRda, NutritionIntake(Summary(foods)))
    IN  /\ summary' = Summary(foods)
        /\ nutritionStats' = stats
        /\ shortageList' = ShortageList(stats)
        /\ overList' = OverList(stats)

NutritionAddFood(foodDb) ==
    \E row \in foodDb :
        /\ row.name # ""
        /\ ~HasFood(nutritionFoods, row.name)
        /\ nutritionFoods' = Append(nutritionFoods, [food |-> row, grams |-> 100])
        /\ NutritionMemos(nutritionFoods')
        /\ UNCHANGED <<dashboardVars, analyseVars, otherVars>>

NutritionChangeGrams(typed) ==
    \E index \in 1..Len(nutritionFoods), value \in typed :
        /\ nutritionFoods' = [nutritionFoods EXCEPT ![index].grams = TypedGrams(value)]
        /\ NutritionMemos(nutritionFoods')
        /\ UNCHANGED <<dashboardVars, analyseVars, otherVars>>

NutritionRemoveFood ==
    \E index \in 1..Len(nutritionFoods) :
        /\ nutritionFoods' = RemoveAt(nutritionFoods, index)
        /\ NutritionMemos(nutritionFoods')
        /\ UNCHANGED <<dashboardVars, analyseVars, otherVars>>

\* The state after NutritionPage has mounted.
NutritionMount ==
    /\ nutritionFoods = <<>>
    /\ summary = Summary(<<>>)
    /\ nutritionStats = buildNutrientStats(NutritionRda, NutritionIntake(Summary(<<>>)))
    /\ shortageList = ShortageList(nutritionStats)
    /\ overList = OverList(nutritionStats)

\* ------------------------------------------------- reading a food table row
\* Texts are sequences of characters.  Number(text) for texts of spaces, signs,
\* digits and other characters: <<n>> for the number n, <<>> for NaN.  Decimal
\* points, exponents and hexadecimal literals are not among the texts used.
Digits == <<"0", "1", "2", "3", "4", "5", "6", "7", "8", "9">>

IsDigit(c) == \E d \in 1..10 : Digits[d] = c

DigitValue(c) == (CHOOSE d \in 1..10 : Digits[d] = c) - 1

RECURSIVE DigitsValue(_)
DigitsValue(s) ==
    IF s = <<>> THEN 0
    ELSE 10 * DigitsValue(SubSeq(s, 1, Len(s) - 1)) + DigitValue(s[Len(s)])

RECURSIVE Trim(_)
Trim(s) ==
    IF s = <<>> THEN s
    ELSE IF Head(s) = " " THEN Trim(Tail(s))
    ELSE IF s[Len(s)] = " " THEN Trim(SubSeq(s, 1, Len(s) - 1))
    ELSE s

NumberOf(text) ==
    LET t == Trim(text)
        signed == t # <<>> /\ t[1] \in {"+", "-"}
        body == IF signed THEN Tail(t) ELSE t
    IN  IF t = <<>> THEN <<0>>
        ELSE IF body = <<>> \/ \E i \in 1..Len(body) : ~IsDigit(body[i]) THEN <<>>
        ELSE IF t[1] = "-" THEN <<0 - DigitsValue(body)>>
        ELSE <<DigitsValue(body)>>

\* The values a row can hold under a key (FoodRow: string | number), and no
\* value at all.
Undefined == [kind |-> "undefined", value |-> 0, text |-> <<>>]
NaNCell == [kind |-> "nan", value |-> 0, text |-> <<>>]
NumberCell(n) == [kind |-> "number", value |-> n, text |-> <<>>]
StringCell(t) == [kind |-> "string", value |-> 0, text |-> t]

\* The keys the modelled rows are made of.
RowKeys == {"protein", "Protein", "protein_g"}

Get(row, key) == IF key \in RowKeys THEN row[key] ELSE Undefined

\* v.replace(/,/g, "")
RemoveCommas(text) == SelectSeq(text, LAMBDA c : c # ",")

\* s.replace(/[^\d.+-]/g, "")
KeepNumeric(text) == SelectSeq(text, LAMBDA c : IsDigit(c) \/ c \in {".", "+", "-"})

RECURSIVE getNumberField(_, _)
getNumberField(row, keys) ==
    IF keys = <<>> THEN 0
    ELSE LET v == Get(row, Head(keys))
             n == NumberOf(RemoveCommas(v.text))
         IN  IF v.kind = "number" THEN v.value
             ELSE IF v.kind = "string" /\ n # <<>> THEN n[1]
             ELSE getNumberField(row, Tail(keys))

toNumber(v) ==
    LET n == NumberOf(KeepNumeric(Trim(v.text)))
    IN  IF v.kind = "undefined" THEN 0
        ELSE IF v.kind = "number" THEN v.value
        ELSE IF v.kind = "nan" THEN 0
        ELSE IF Trim(v.text) = <<>> THEN 0
        ELSE IF n = <<>> THEN 0
        ELSE n[1]

RECURSIVE getNutrient(_, _)
getNutrient(row, keys) ==
    IF keys = <<>> THEN 0
    ELSE LET v == Get(row, Head(keys))
         IN  IF v.kind # "undefined" /\ toNumber(v) # 0 THEN toNumber(v)
             ELSE getNutrient(row, Tail(keys))

\* The candidate keys for protein of the analysis page and of the nutrition
\* page (Korean keys romanised).
AnalyseProteinKeys ==
    <<"protein", "Protein", "PROTEIN", "danbaekjil(g)", "danbaekjil", "protein_g", "PROT_G">>

NutritionProteinKeys ==
    <<"protein", "Protein", "PROTEIN", "danbaekjil(g)", "danbaekjil", "protein_g">>

\* Both pages read the protein of a row.
getProteinPer100g(rows) ==
    \E row \in rows :
        /\ foodRow' = row
        /\ extracted' = [analyse |-> getNumberField(row, AnalyseProteinKeys),
                         nutrition |-> getNutrient(row, NutritionProteinKeys)]
        /\ UNCHANGED <<dashboardVars, analyseVars, nutritionVars, riskVars, hookVars, bottleVars, dropVars>>

\* No row has been read.
ExtractMount ==
    /\ foodRow = [k \in RowKeys |-> Undefined]
    /\ extracted = [analyse |-> 0, nutrition |-> 0]

\* ------------------------------------------- dashboard: diet and disease risk
\* DISEASE_OPTIONS: the label shown (romanised) and the disease name of the
\* rule table.
DISEASE_OPTIONS ==
    << [ko |-> "biman", en |-> "obesity"],
       [ko |-> "gohyeorap", en |-> "hypertension"],
       [ko |-> "simhyeolgwan jilhwan", en |-> "cardiovascular disease"],
       [ko |-> "goldagongjeung", en |-> "osteoporosis"],
       [ko |-> "am", en |-> "cancer"],
       [ko |-> "yorogyeolseok", en |-> "urinary stones"] >>

\* A rule as parseDiseaseRuleCsv builds it from the columns value and label.
ParsedRule(value, label) ==
    [ value |-> value, label |-> label, food_entity |-> <<>>, disease_entity |-> value,
      sentence |-> <<>>, is_cause |-> <<>> ]

\* A rule of type DiseaseRule with the fields the dashboard reads.
DiseaseRule(disease, food, sentence, isCause) ==
    [ value |-> disease, label |-> disease, food_entity |-> food, disease_entity |-> disease,
      sentence |-> sentence, is_cause |-> isCause ]

NoToast == [kind |-> "none", message |-> ""]
NO_FOOD == "enter at least one food"
NO_DISEASE == "select at least one disease"
RULES_NOT_READY == "disease data is not ready yet"
NO_RISK == "no notable risk for these foods and diseases"
RISK_FOUND == "some foods are risk factors for the selected diseases"

\* selectedDiseaseKeys (useMemo)
selectedDiseaseKeys(selected) ==
    LET chosen == SelectSeq(DISEASE_OPTIONS,
                            LAMBDA opt : \E k \in 1..Len(selected) : selected[k] = opt.ko)
    IN  [i \in 1..Len(chosen) |-> LowerCasePiece(chosen[i].en)]

\* text.trim(): spaces and line breaks at both ends removed
RECURSIVE TrimText(_)
TrimText(s) ==
    IF s = <<>> THEN s
    ELSE IF Head(s) \in {" ", "\n"} THEN TrimText(Tail(s))
    ELSE IF s[Len(s)] \in {" ", "\n"} THEN TrimText(SubSeq(s, 1, Len(s) - 1))
    ELSE s

\* text.split(/[,\n]/)
RECURSIVE SplitText(_, _)
SplitText(s, current) ==
    IF s = <<>> THEN <<current>>
    ELSE IF Head(s) \in {",", "\n"} THEN <<current>> \o SplitText(Tail(s), <<>>)
    ELSE SplitText(Tail(s), Append(current, Head(s)))

\* foodInput.split(/[,\n]/).map((s) => s.trim().toLowerCase()).filter(Boolean)
FoodTokens(input) ==
    LET parts == SplitText(input, <<>>)
        cleaned == [i \in 1..Len(parts) |-> ToLowerCase(TrimText(parts[i]))]
    IN  SelectSeq(cleaned, LAMBDA f : f # <<>>)

\* Number(text) === 1 for texts of digits with at most one decimal point
IsOne(text) ==
    LET t == Trim(text)
        dots == {i \in 1..Len(t) : t[i] = "."}
        whole == IF dots = {} THEN t ELSE SubSeq(t, 1, (CHOOSE i \in dots : TRUE) - 1)
        frac == IF dots = {} THEN <<>> ELSE SubSeq(t, (CHOOSE i \in dots : TRUE) + 1, Len(t))
    IN  /\ Cardinality(dots) <= 1
        /\ whole # <<>>
        /\ \A i \in 1..Len(whole) : IsDigit(whole[i])
        /\ DigitsValue(whole) = 1
        /\ \A i \in 1..Len(frac) : frac[i] = "0"

IsRisk_FlagOnly(rule) == IsOne(rule.is_cause)

IsRisk(rule) ==
    \/ IsOne(rule.is_cause)
    \/ Includes(ToLowerCase(rule.sentence), <<"increase">>)
    \/ Includes(ToLowerCase(rule.sentence), <<"risk">>)

DiseaseMatch(rule, keys) ==
    \E k \in 1..Len(keys) : keys[k] = LowerCasePiece(rule.disease_entity)

FoodMatch(rule, foods) ==
    \E k \in 1..Len(foods) : Includes(ToLowerCase(rule.food_entity), foods[k])

\* diseaseRules.filter(...)
Matches(rules, keys, foods) ==
    SelectSeq(rules, LAMBDA rule :
        DiseaseMatch(rule, keys) /\ FoodMatch(rule, foods) /\ IsRisk(rule))

\* The rule table has been loaded.
RulesLoaded(tables) ==
    \E rules \in tables :
        /\ loadingRules
        /\ diseaseRules' = rules
        /\ loadingRules' = FALSE
        /\ UNCHANGED <<rulesError, foodInput, dashboardDiseases, riskResults, toast>>
        /\ UNCHANGED <<dashboardVars, analyseVars, nutritionVars, extractVars, hookVars, bottleVars, dropVars>>

\* Loading the rule table has failed.
RulesFailed ==
    /\ loadingRules
    /\ rulesError' = TRUE
    /\ loadingRules' = FALSE
    /\ UNCHANGED <<diseaseRules, foodInput, dashboardDiseases, riskResults, toast>>
    /\ UNCHANGED <<dashboardVars, analyseVars, nutritionVars, extractVars, hookVars, bottleVars, dropVars>>

setFoodInput(inputs) ==
    \E text \in inputs :
        /\ foodInput' = text
        /\ UNCHANGED <<diseaseRules, loadingRules, rulesError, dashboardDiseases,
                       riskResults, toast>>
        /\ UNCHANGED <<dashboardVars, analyseVars, nutritionVars, extractVars, hookVars, bottleVars, dropVars>>

dashboardToggleDisease(options) ==
    \E ko \in options :
        /\ dashboardDiseases' =
              IF \E k \in 1..Len(dashboardDiseases) : dashboardDiseases[k] = ko
              THEN SelectSeq(dashboardDiseases, LAMBDA d : d # ko)
              ELSE Append(dashboardDiseases, ko)
        /\ UNCHANGED <<diseaseRules, loadingRules, rulesError, foodInput, riskResults, toast>>
        /\ UNCHANGED <<dashboardVars, analyseVars, nutritionVars, extractVars, hookVars, bottleVars, dropVars>>

handleAnalyze ==
    LET keys == selectedDiseaseKeys(dashboardDiseases)
        matches == Matches(diseaseRules, keys, FoodTokens(foodInput))
    IN  /\ IF TrimText(foodInput) = <<>>
           THEN toast' = [kind |-> "error", message |-> NO_FOOD] /\ UNCHANGED riskResults
           ELSE IF keys = <<>>
           THEN toast' = [kind |-> "error", message |-> NO_DISEASE] /\ UNCHANGED riskResults
           ELSE IF diseaseRules = <<>>
           THEN toast' = [kind |-> "error", message |-> RULES_NOT_READY]
                /\ UNCHANGED riskResults
           ELSE /\ riskResults' = matches
                /\ toast' = IF matches = <<>>
                            THEN [kind |-> "success", message |-> NO_RISK]
                            ELSE [kind |-> "error", message |-> RISK_FOUND]
        /\ UNCHANGED <<diseaseRules, loadingRules, rulesError, foodInput, dashboardDiseases>>
        /\ UNCHANGED <<dashboardVars, analyseVars, nutritionVars, extractVars, hookVars, bottleVars, dropVars>>

\* The diet and disease card after DashboardContent has mounted.
RiskMount ==
    /\ diseaseRules = <<>>
    /\ loadingRules = TRUE
    /\ rulesError = FALSE
    /\ foodInput = <<>>
    /\ dashboardDiseases = <<>>
    /\ riskResults = <<>>
    /\ toast = NoToast

\* ------------------------------------------------ bottle card: refill, dispense
\* Two browsers show the dashboard; the card of bottle 1 is followed.
Clients == {1, 2}

FirstClient == 1

MaxPills == 18

Idle == [pc |-> "idle", amount |-> 0, current |-> 0]

\* A value callback hands a browser the count of bottle 1.
OnBottleCount(clients, counts) ==
    \E c \in clients, n \in counts :
        /\ pillCount' = [pillCount EXCEPT ![c] = n]
        /\ UNCHANGED <<storedCount, refill, refillsStarted, deviceDispensed, dispenseCount,
                       cardLoading, control>>
        /\ UNCHANGED <<dashboardVars, analyseVars, nutritionVars, extractVars, riskVars,
                       hookVars, dropVars>>

\* The device dispenses a pill and lowers the stored count.
DeviceDispense(maxDispensed) ==
    /\ deviceDispensed < maxDispensed
    /\ storedCount > 0
    /\ storedCount' = storedCount - 1
    /\ deviceDispensed' = deviceDispensed + 1
    /\ UNCHANGED <<pillCount, refill, refillsStarted, dispenseCount, cardLoading, control>>
    /\ UNCHANGED <<dashboardVars, analyseVars, nutritionVars, extractVars, riskVars,
                   hookVars, dropVars>>

\* The refill button: BottleCard.handleRefill, then the dashboard's
\* handleRefill up to the call of refillBottle.
RefillClick(maxRefills) ==
    \E c \in Clients :
        /\ refillsStarted < maxRefills
        /\ refill[c].pc = "idle"
        /\ IF pillCount[c] >= MaxPills \/ MaxPills - pillCount[c] <= 0
           THEN UNCHANGED <<refill, refillsStarted>>
           ELSE /\ refill' = [refill EXCEPT ![c] = [pc |-> "get",
                                                   amount |-> MaxPills - pillCount[c],
                                                   current |-> 0]]
                /\ refillsStarted' = refillsStarted + 1
        /\ UNCHANGED <<storedCount, pillCount, deviceDispensed, dispenseCount, cardLoading,
                       control>>
        /\ UNCHANGED <<dashboardVars, analyseVars, nutritionVars, extractVars, riskVars,
                       hookVars, dropVars>>

\* refillBottle: const current = (await get(countRef)).val() || 0
RefillGet ==
    \E c \in Clients :
        /\ refill[c].pc = "get"
        /\ refill' = [refill EXCEPT ![c].pc = "set", ![c].current = storedCount]
        /\ UNCHANGED <<storedCount, pillCount, refillsStarted, deviceDispensed,
                       dispenseCount, cardLoading, control>>
        /\ UNCHANGED <<dashboardVars, analyseVars, nutritionVars, extractVars, riskVars,
                       hookVars, dropVars>>

\* refillBottle: await set(countRef, current + amount); the refill is complete.
\* The writing browser's own listener is handed the written count at once.
RefillSet ==
    \E c \in Clients :
        /\ refill[c].pc = "set"
        /\ storedCount' = refill[c].current + refill[c].amount
        /\ pillCount' = [pillCount EXCEPT ![c] = refill[c].current + refill[c].amount]
        /\ refill' = [refill EXCEPT ![c] = Idle]
        /\ UNCHANGED <<refillsStarted, deviceDispensed, dispenseCount, cardLoading, control>>
        /\ UNCHANGED <<dashboardVars, analyseVars, nutritionVars, extractVars, riskVars,
                       hookVars, dropVars>>

Minimum(a, b) == IF a < b THEN a ELSE b

Maximum(a, b) == IF a > b THEN a ELSE b

\* The - button: setDispenseCount(Math.max(1, dispenseCount - 1))
DecreaseCount ==
    /\ ~cardLoading
    /\ dispenseCount' = Maximum(1, dispenseCount - 1)
    /\ UNCHANGED <<storedCount, pillCount, refill, refillsStarted, deviceDispensed,
                   cardLoading, control>>
    /\ UNCHANGED <<dashboardVars, analyseVars, nutritionVars, extractVars, riskVars,
                   hookVars, dropVars>>

\* The + button: setDispenseCount(Math.min(pillCount, dispenseCount + 1))
IncreaseCount ==
    /\ ~cardLoading
    /\ dispenseCount' = Minimum(pillCount[FirstClient], dispenseCount + 1)
    /\ UNCHANGED <<storedCount, pillCount, refill, refillsStarted, deviceDispensed,
                   cardLoading, control>>
    /\ UNCHANGED <<dashboardVars, analyseVars, nutritionVars, extractVars, riskVars,
                   hookVars, dropVars>>

\* The dispense button: BottleCard.handleDispense, the dashboard's
\* handleDispense and dispense(), up to the write of control/dispense.
BottleCardDispense ==
    /\ ~cardLoading
    /\ ~(pillCount[FirstClient] < dispenseCount)
    /\ cardLoading' = TRUE
    /\ control' = [isNull |-> FALSE, bottleNumber |-> 1, count |-> dispenseCount,
                   status |-> "pending", pillCountAtClick |-> pillCount[FirstClient]]
    /\ UNCHANGED <<storedCount, pillCount, refill, refillsStarted, deviceDispensed,
                   dispenseCount>>
    /\ UNCHANGED <<dashboardVars, analyseVars, nutritionVars, extractVars, riskVars,
                   hookVars, dropVars>>

\* dispense() has returned: setIsExecuting(false), setIsLoading(false).
DispenseSettled ==
    /\ cardLoading
    /\ cardLoading' = FALSE
    /\ UNCHANGED <<storedCount, pillCount, refill, refillsStarted, deviceDispensed,
                   dispenseCount, control>>
    /\ UNCHANGED <<dashboardVars, analyseVars, nutritionVars, extractVars, riskVars,
                   hookVars, dropVars>>

\* The cards after the dashboards have mounted; no snapshot has arrived and
\* the placeholder count is shown.
BottleMount ==
    /\ storedCount = MaxPills
    /\ pillCount = [c \in Clients |-> InitialValue.bottleCount[1]]
    /\ refill = [c \in Clients |-> Idle]
    /\ refillsStarted = 0
    /\ deviceDispensed = 0
    /\ dispenseCount = 1
    /\ cardLoading = FALSE
    /\ control = NULL

\* ------------------------------------------------------------ lib/dispenser.ts
SlotIds == {"vitamin_c", "calcium_d", "iron", "protein", "fiber", "multivitamin"}

NoSlot == "null"

\* mapPillNameToSlotId (Korean keywords romanised)
mapPillNameToSlotId(pillName) ==
    LET name == ToLowerCase(pillName)
    IN  IF Includes(name, <<"bitamin c">>) THEN "vitamin_c"
        ELSE IF Includes(name, <<"kalsyum">>) THEN "calcium_d"
        ELSE IF Includes(name, <<"cheolbun">>) THEN "iron"
        ELSE IF Includes(name, <<"danbaekjil">>) THEN "protein"
        ELSE IF Includes(name, <<"sigiseomyu">>) THEN "fiber"
        ELSE IF Includes(name, <<"jonghap">>) THEN "multivitamin"
        ELSE NoSlot

\* snap.exists() ? Number(snap.val()) : 0, for a slot that holds <<n>> or nothing
CurrentOf(slot) == IF slots[slot] = <<>> THEN 0 ELSE slots[slot][1]

\* if (current <= 0)
Insufficient_NegativeOnly(current) == current < 0

Insufficient(current) == current <= 0

NotDropping == [pc |-> "idle", items |-> <<>>, i |-> 1, current |-> 0, insufficient |-> <<>>]

\* The slots are stocked while no call is running.
StockSlot(stocked, counts) ==
    \E slot \in stocked, n \in counts :
        /\ drop.pc \in {"idle", "done"}
        /\ slots' = [slots EXCEPT ![slot] = <<n>>]
        /\ UNCHANGED <<drop, lastDrop>>
        /\ UNCHANGED <<dashboardVars, analyseVars, nutritionVars, extractVars, riskVars,
                       hookVars, bottleVars>>

\* dispenseSupplementsToDispenser is called.
DropStart(lists) ==
    \E supplements \in lists :
        /\ drop.pc \in {"idle", "done"}
        /\ drop' = [pc |-> IF supplements = <<>> THEN "done" ELSE "loop",
                    items |-> supplements, i |-> 1, current |-> 0, insufficient |-> <<>>]
        /\ UNCHANGED <<slots, lastDrop>>
        /\ UNCHANGED <<dashboardVars, analyseVars, nutritionVars, extractVars, riskVars,
                       hookVars, bottleVars>>

\* One turn of the loop, up to the write of the count.
DropGet ==
    /\ drop.pc = "loop"
    /\ drop.i <= Len(drop.items)
    /\ LET s == drop.items[drop.i]
           slotId == mapPillNameToSlotId(s.pillName)
       IN  drop' = IF slotId = NoSlot
                   THEN [drop EXCEPT !.i = drop.i + 1]
                   ELSE IF Insufficient(CurrentOf(slotId))
                   THEN [drop EXCEPT !.i = drop.i + 1,
                                     !.insufficient =
                                         Append(drop.insufficient,
                                                [slotId |-> slotId, pillName |-> s.pillName,
                                                 nutrientLabel |-> s.nutrientLabel])]
                   ELSE [drop EXCEPT !.pc = "set", !.current = CurrentOf(slotId)]
    /\ UNCHANGED <<slots, lastDrop>>
    /\ UNCHANGED <<dashboardVars, analyseVars, nutritionVars, extractVars, riskVars,
                   hookVars, bottleVars>>

\* await set(countRef, Math.max(0, current - 1))
DropSet ==
    /\ drop.pc = "set"
    /\ slots' = [slots EXCEPT ![mapPillNameToSlotId(drop.items[drop.i].pillName)] =
                                   <<Maximum(0, drop.current - 1)>>]
    /\ drop' = [drop EXCEPT !.pc = "loop", !.i = drop.i + 1]
    /\ UNCHANGED lastDrop
    /\ UNCHANGED <<dashboardVars, analyseVars, nutritionVars, extractVars, riskVars,
                   hookVars, bottleVars>>

\* After the loop: the drop is logged and the result returned.
DropLog ==
    /\ drop.pc = "loop"
    /\ drop.i > Len(drop.items)
    /\ lastDrop' = [k \in 1..Len(drop.items) |->
                       [pillName |-> drop.items[k].pillName,
                        nutrient |-> drop.items[k].nutrientLabel]]
    /\ drop' = [drop EXCEPT !.pc = "done"]
    /\ UNCHANGED slots
    /\ UNCHANGED <<dashboardVars, analyseVars, nutritionVars, extractVars, riskVars,
                   hookVars, bottleVars>>

\* No slot holds a count and nothing has been dropped.
DropMount ==
    /\ slots = [slot \in SlotIds |-> <<>>]
    /\ drop = NotDropping
    /\ lastDrop = <<>>

OtherMount ==
    /\ HookMount
    /\ BottleMount
    /\ DropMount
    /\ ExtractMount
    /\ RiskMount

\* ------------------------------------------------------------ specifications
\* The state after the pages have mounted.
Init ==
    /\ data = InitialValue
    /\ loading = TRUE
    /\ error = FALSE
    /\ retryCount = 0
    /\ listening = TRUE
    /\ renderPending = TRUE
    /\ depsChanged = TRUE
    /\ systemStatus = NotRendered
    /\ previousDataRef = NULL
    /\ events = <<>>
    /\ lastUpdate = <<>>
    /\ rafQueue = <<>>
    /\ now = 0
    /\ delivered = 0
    /\ passLog = <<>>
    /\ lastDropped = <<>>
    /\ AnalyseMount
    /\ NutritionMount
    /\ OtherMount

\* A snapshot of three bottles <<count, temperature, humidity>>.
Snapshot(b1, b2, b3, fan, dispensing) ==
    [bottleCount |-> <<b1[1], b2[1], b3[1]>>,
     dht |-> <<Tail(b1), Tail(b2), Tail(b3)>>,
     fanStatus |-> fan,
     isDispensing |-> dispensing]

\* The whole hook and dashboard, from the mount on.
Snapshots ==
    {Snapshot(<<6, 30, 70>>, <<6, 30, 70>>, <<6, 30, 70>>, FALSE, FALSE),
     Snapshot(<<4, 36, 70>>, <<6, 30, 70>>, <<6, 30, 70>>, FALSE, FALSE)}

Next ==
    \/ OnValue(Snapshots, MaxDeliveries)
    \/ OnValueEmpty(MaxDeliveries)
    \/ OnError
    \/ Retry(MaxRetries)
    \/ Render(MaxClock)
    \/ AnimationFrame

Spec == Init /\ [][Next]_vars

\* One run of the effect, from any pair of a previous and a current snapshot:
\* the state after the first snapshot's pass and frame, when the second has
\* arrived (or, with no previous snapshot, when the first has arrived).
Profiles ==
    {<<6, 30, 70>>, <<5, 31, 71>>, <<4, 35, 70>>, <<3, 36, 71>>, <<6, 36, 70>>, <<5>>}

PassSnapshots ==
    {Snapshot(b1, b2, b3, fan, FALSE) :
        b1 \in Profiles, b2 \in Profiles, b3 \in {<<6, 30, 70>>, <<4, 36, 71>>},
        fan \in BOOLEAN}

InitPass ==
    /\ data \in PassSnapshots
    /\ previousDataRef \in PassSnapshots \cup {NULL}
    /\ loading = FALSE
    /\ error = FALSE
    /\ retryCount = 0
    /\ listening = TRUE
    /\ renderPending = TRUE
    /\ depsChanged = TRUE
    /\ systemStatus = IF previousDataRef = NULL
                      THEN NotRendered
                      ELSE getSystemStatus(previousDataRef)
    /\ events = <<>>
    /\ lastUpdate = IF previousDataRef = NULL THEN <<>> ELSE <<0>>
    /\ rafQueue = <<>>
    /\ now = 0
    /\ delivered = IF previousDataRef = NULL THEN 1 ELSE 2
    /\ passLog = IF previousDataRef = NULL
                 THEN <<>>
                 ELSE <<[prev |-> NULL, cur |-> previousDataRef, newEvents |-> <<>>]>>
    /\ lastDropped = <<>>
    /\ AnalyseMount
    /\ NutritionMount
    /\ OtherMount

NextPass ==
    \/ Render(MaxPassClock)
    \/ AnimationFrame

SpecPass == InitPass /\ [][NextPass]_vars

\* A stream of snapshots without errors: counts falling and rising across the
\* low-stock limit, temperatures across the critical limit.
RunSnapshots ==
    {Snapshot(<<6, 30, 70>>, <<6, 30, 70>>, <<6, 30, 70>>, FALSE, FALSE),
     Snapshot(<<4, 30, 70>>, <<6, 30, 70>>, <<6, 36, 70>>, FALSE, FALSE),
     Snapshot(<<3, 30, 70>>, <<4, 30, 70>>, <<6, 40, 70>>, FALSE, FALSE)}

NextRun ==
    \/ OnValue(RunSnapshots, MaxRunDeliveries)
    \/ Render(MaxRunClock)
    \/ AnimationFrame

SpecRun == Init /\ [][NextRun]_vars

\* A stream that fills the event log, every snapshot differing from the one
\* before it: 13 events on the way up, 1 on the way down.
LogSnapshots ==
    {Snapshot(<<6, 30, 70>>, <<6, 30, 70>>, <<6, 30, 70>>, FALSE, FALSE),
     Snapshot(<<4, 36, 71>>, <<4, 36, 71>>, <<4, 36, 71>>, TRUE, FALSE)}

NextLog ==
    \/ OnValue(LogSnapshots \ {data}, MaxLogDeliveries)
    \/ Render(MaxLogClock)
    \/ AnimationFrame

SpecLog == Init /\ [][NextLog]_vars

\* A render of any first snapshot, or of no snapshot at all (data: T | null).
ClassifySnapshots ==
    {Snapshot(<<6, t1, 70>>, <<6, t2, 70>>, <<6, t3, 70>>, fan, dispensing) :
        t1 \in {30, 35, 36, 40}, t2 \in {30, 35, 36, 40}, t3 \in {30, 35, 36, 40},
        fan \in BOOLEAN, dispensing \in BOOLEAN}

InitClassify ==
    /\ data \in ClassifySnapshots \cup {NULL}
    /\ loading = FALSE
    /\ error = FALSE
    /\ retryCount = 0
    /\ listening = TRUE
    /\ renderPending = TRUE
    /\ depsChanged = TRUE
    /\ systemStatus = NotRendered
    /\ previousDataRef = NULL
    /\ events = <<>>
    /\ lastUpdate = <<>>
    /\ rafQueue = <<>>
    /\ now = 0
    /\ delivered = IF data = NULL THEN 0 ELSE 1
    /\ passLog = <<>>
    /\ lastDropped = <<>>
    /\ AnalyseMount
    /\ NutritionMount
    /\ OtherMount

NextClassify ==
    \/ Render(MaxPassClock)
    \/ AnimationFrame

SpecClassify == InitClassify /\ [][NextClassify]_vars

\* The analysis page with profiles of every shape: each field present,
\* missing or zero, every sex and activity level.
EstimateProfiles ==
    [age : {<<>>, <<0>>, <<30>>, <<45>>},
     sex : {"", "male", "female", "other"},
     heightCm : {<<>>, <<160>>, <<175>>},
     weightKg : {<<>>, <<55>>, <<70>>},
     activityLevel : {"", "sedentary", "light", "moderate", "active", "very_active"}]

NextEstimate ==
    \/ ProfileLoaded(EstimateProfiles)
    \/ SignedOut

SpecEstimate == Init /\ [][NextEstimate]_vars

\* The analysis page with foods, diseases and bottle names that make every
\* rule of the recommendation and every branch of the comparator happen.
RecommendProfiles ==
    {[age |-> <<>>, sex |-> "female", heightCm |-> <<160>>, weightKg |-> <<55>>,
      activityLevel |-> ""],
     [age |-> <<30>>, sex |-> "male", heightCm |-> <<175>>, weightKg |-> <<70>>,
      activityLevel |-> "moderate"],
     [age |-> <<90>>, sex |-> "female", heightCm |-> <<50>>, weightKg |-> <<5>>,
      activityLevel |-> "light"]}

PillConfigs ==
    [bottle1 : {<<>>, <<"jonghap", " ", "bitamin">>,
                <<"omega", " ", "bitamin", " ", "D", " ", "cheolbun">>},
     bottle2 : {<<>>, <<"bitamin", " ", "D", " + calcium">>},
     bottle3 : {<<"omega", "-3">>, <<"Iron">>}]

DiseaseOptions ==
    {<<"simhyeolgwan", " jilhwan">>, <<"Osteo", "porosis">>, <<"binhyeol">>}

FoodDb ==
    {FoodRow("oil", 9000, 0, 0, 1000), FoodRow("apple", 525, 137, 3, 2)}

GramChoices == {<<>>, <<100>>, <<240>>}

NextRecommend ==
    \/ ProfileLoaded(RecommendProfiles)
    \/ PillConfigLoaded(PillConfigs)
    \/ toggleDisease(DiseaseOptions)
    \/ handleAddFood(FoodDb)
    \/ handleChangeGrams(GramChoices)
    \/ handleRemoveFood
    \/ SignedOut

SpecRecommend == Init /\ [][NextRecommend]_vars

\* The nutrition page.
NutritionFoodDb ==
    {FoodRow("oil", 9000, 0, 0, 1000), FoodRow("apple", 525, 137, 3, 2),
     FoodRow("rice", 3500, 770, 65, 10)}

NextNutrition ==
    \/ NutritionAddFood(NutritionFoodDb)
    \/ NutritionChangeGrams(GramChoices)
    \/ NutritionRemoveFood

SpecNutrition == Init /\ [][NextNutrition]_vars

\* The selected-food lists of both pages, with any number typed as grams.
FoodsGramChoices == {<<>>, <<-50>>, <<250>>}

NextFoods ==
    \/ handleAddFood(FoodDb)
    \/ handleChangeGrams(FoodsGramChoices)
    \/ handleRemoveFood
    \/ NutritionAddFood(NutritionFoodDb)
    \/ NutritionChangeGrams(FoodsGramChoices)
    \/ NutritionRemoveFood

SpecFoods == Init /\ [][NextFoods]_vars

\* Rows holding numbers, NaN and texts under some of the candidate keys.
Cells ==
    { Undefined, NumberCell(0), NumberCell(7), NaNCell,
      StringCell(<<>>), StringCell(<<"1", ",", "2", "5", "0">>),
      StringCell(<<"1", "2", "g">>), StringCell(<<"n", "/", "a">>) }

Rows == [RowKeys -> Cells]

NextExtract == getProteinPer100g(Rows)

SpecExtract == Init /\ [][NextExtract]_vars

\* Rule tables: none, one as the CSV parser builds it, and one with the fields
\* of a DiseaseRule filled in.
RuleTables ==
    { <<>>,
      << ParsedRule("hypertension", "gohyeorap"), ParsedRule("obesity", "biman") >>,
      << DiseaseRule("Hypertension", <<"sea", " ", "Salt">>, <<"raises blood pressure">>,
                     <<"1", ".", "0">>),
         DiseaseRule("obesity", <<"salt">>, <<"may ", "Increase", " appetite">>, <<"0", ".", "0">>),
         DiseaseRule("hypertension", <<"ramen">>, <<"lowers the ", "risk">>, <<>>),
         DiseaseRule("hypertension", <<"salt", "ed fish">>, <<"no relation">>, <<"0">>),
         DiseaseRule("cancer", <<"salt">>, <<"a ", "risk", " factor">>, <<"1">>),
         DiseaseRule("obesity", <<"ramen">>, <<"fattening">>, <<"1">>) >> }

FoodInputs ==
    { <<>>, <<" ", "\n">>, <<",">>,
      <<" ", "Salt", " ">>,
      <<"ramen", ",", " ", "salt", "\n", "rice">> }

RiskDiseaseOptions == {"gohyeorap", "biman"}

NextRisk ==
    \/ RulesLoaded(RuleTables)
    \/ RulesFailed
    \/ setFoodInput(FoodInputs)
    \/ dashboardToggleDisease(RiskDiseaseOptions)
    \/ handleAnalyze

SpecRisk == Init /\ [][NextRisk]_vars

\* The hook alone: values, errors, retries, unmounting, and callbacks of
\* subscriptions that were torn down.
MaxStaleCalls == 2

NextHook ==
    \/ OnValue(Snapshots, MaxDeliveries)
    \/ OnValueEmpty(MaxDeliveries)
    \/ OnError
    \/ Retry(MaxRetries + 1)
    \/ Unmount
    \/ OldValue(Snapshots, MaxStaleCalls)
    \/ OldError(MaxStaleCalls)

SpecHook == Init /\ [][NextHook]_vars

\* Refills of bottle 1 from two browsers while the device dispenses.
MaxRefills == 2
MaxDeviceDispensed == 2

NextRefill ==
    \/ OnBottleCount(Clients, {storedCount})
    \/ DeviceDispense(MaxDeviceDispensed)
    \/ RefillClick(MaxRefills)
    \/ RefillGet
    \/ RefillSet

SpecRefill == Init /\ [][NextRefill]_vars

\* The dispense controls of the card of bottle 1 while its pill count changes.
CardCounts == {0, 1, 3}

NextCard ==
    \/ OnBottleCount({FirstClient}, CardCounts)
    \/ DecreaseCount
    \/ IncreaseCount
    \/ BottleCardDispense
    \/ DispenseSettled

SpecCard == Init /\ [][NextCard]_vars

\* Calls of dispenseSupplementsToDispenser with stocked and empty slots.
Supplement(pillName, nutrientLabel) == [pillName |-> pillName, nutrientLabel |-> nutrientLabel]

SupplementLists ==
    { <<>>,
      << Supplement(<<"bitamin C", " 1000">>, "vitamin C") >>,
      << Supplement(<<"jonghap", " ", "bitamin C">>, "vitamin C"),
         Supplement(<<"omega", "-3">>, "fat"),
         Supplement(<<"jonghap", "bitamin">>, "kcal") >>,
      << Supplement(<<"cheolbun">>, "iron"),
         Supplement(<<"bitamin C">>, "vitamin C"),
         Supplement(<<"cheolbun", " plus">>, "iron") >> }

StockedSlots == {"vitamin_c", "iron", "multivitamin"}

StockCounts == {-1, 0, 1, 2}

NextDrop ==
    \/ StockSlot(StockedSlots, StockCounts)
    \/ DropStart(SupplementLists)
    \/ DropGet
    \/ DropSet
    \/ DropLog

SpecDrop == Init /\ [][NextDrop]_vars

\* -------------------------------------------------------------------- claims
\* The events of one type about one bottle in a list of events.
EventsAbout(list, type, b) ==
    {i \in 1..Len(list) : list[i].type = type /\ list[i].data.bottleId = b}

HasSetEvents(queue) == \E i \in 1..Len(queue) : queue[i].kind = "setEvents"

\* C1: a run of the effect that finds no previous snapshot pushes no event,
\* whatever the snapshot holds; it hands no setEvents to the animation frame,
\* leaves the event log empty and records the snapshot as the previous one.
C1_FirstSnapshotEmitsNothing ==
    \A i \in 1..Len(passLog) :
        passLog[i].prev = NULL =>
            /\ passLog[i].newEvents = <<>>
            /\ i = Len(passLog) =>
                  /\ previousDataRef = passLog[i].cur
                  /\ ~HasSetEvents(rafQueue)
                  /\ events = <<>>

C1_Witness ==
    /\ ~renderPending
    /\ Len(passLog) = 1
    /\ passLog[1].prev = NULL
    /\ passLog[1].cur = data
    /\ passLog[1].cur.bottleCount[1] < LowPillLimit
    /\ Temperature(passLog[1].cur.dht[1]) > TempCriticalLimit
    /\ Humidity(passLog[1].cur.dht[1]) > HumidityLimit
    /\ passLog[1].cur.fanStatus
    /\ rafQueue = <<>>
    /\ lastUpdate # <<>>

\* C4: in one pass and for one bottle, TempWarning and TempCritical are never
\* both emitted, and TempWarning is emitted only when the previous temperature
\* is <= 30 and the current one is in (30, 35].
C4_WarningCriticalExclusive ==
    \A i \in 1..Len(passLog) : \A b \in 1..3 :
        LET pass == passLog[i]
            warnings == EventsAbout(pass.newEvents, TEMP_WARNING, b)
            criticals == EventsAbout(pass.newEvents, TEMP_CRITICAL, b)
        IN  /\ warnings = {} \/ criticals = {}
            /\ warnings # {} =>
                  /\ pass.prev # NULL
                  /\ Temperature(pass.prev.dht[b]) <= 30
                  /\ Temperature(pass.cur.dht[b]) > 30
                  /\ Temperature(pass.cur.dht[b]) <= 35

\* A jump from <= 30 to > 35, which crosses both limits, and a warning
\* elsewhere in the same pass.
C4_Witness ==
    /\ Len(passLog) = 2
    /\ Temperature(passLog[2].prev.dht[1]) <= 30
    /\ Temperature(passLog[2].cur.dht[1]) > 35
    /\ EventsAbout(passLog[2].newEvents, TEMP_CRITICAL, 1) # {}
    /\ EventsAbout(passLog[2].newEvents, TEMP_WARNING, 2) # {}

\* C5: the rendered status is the first match of: no snapshot -> Offline,
\* isDispensing -> Dispensing, fanStatus true -> Cooling, some bottle's
\* temperature > 35 -> Error, otherwise Idle.
C5_StatusPriority ==
    (~renderPending /\ ~loading /\ ~error) =>
        systemStatus =
            CASE data = NULL -> OFFLINE
              [] data # NULL /\ data.isDispensing -> DISPENSING
              [] data # NULL /\ ~data.isDispensing /\ data.fanStatus -> COOLING
              [] data # NULL /\ ~data.isDispensing /\ ~data.fanStatus
                   /\ (\E b \in 1..3 : Temperature(data.dht[b]) > 35) -> ERROR
              [] OTHER -> IDLE

\* isDispensing = true with a temperature of 40 has been rendered.
C5_Witness ==
    /\ ~renderPending
    /\ data # NULL
    /\ data.isDispensing
    /\ Temperature(data.dht[2]) = 40
    /\ systemStatus = DISPENSING

IsHot(snapshot, b) == Temperature(snapshot.dht[b]) > 35
IsLow(snapshot, b) == snapshot.bottleCount[b] < 5

\* The i-th snapshot the deriver ran on is a crossing for bottle b.
HotCrossing(i, b) ==
    i > 1 /\ ~IsHot(passLog[i - 1].cur, b) /\ IsHot(passLog[i].cur, b)
LowCrossing(i, b) ==
    i > 1 /\ ~IsLow(passLog[i - 1].cur, b) /\ IsLow(passLog[i].cur, b)

\* C2: when over consecutive snapshots a bottle's temperature rises from <= 35
\* to > 35 and then stays > 35, TempCritical is emitted for that bottle once,
\* on the crossing snapshot, and on none of the following snapshots of the run.
C2_CriticalOncePerRun ==
    \A b \in 1..3 : \A i \in 1..Len(passLog) : \A j \in i..Len(passLog) :
        (HotCrossing(i, b) /\ \A k \in i..j : IsHot(passLog[k].cur, b)) =>
            /\ Cardinality(EventsAbout(passLog[i].newEvents, TEMP_CRITICAL, b)) = 1
            /\ \A k \in (i + 1)..j :
                  EventsAbout(passLog[k].newEvents, TEMP_CRITICAL, b) = {}

\* Bottle 3 went 30 -> 36 -> 40 and the log shows one TempCritical for it.
C2_Witness ==
    /\ Len(passLog) = 3
    /\ HotCrossing(2, 3)
    /\ IsHot(passLog[3].cur, 3)
    /\ passLog[3].cur # passLog[2].cur
    /\ rafQueue = <<>>
    /\ Cardinality(EventsAbout(events, TEMP_CRITICAL, 3)) = 1

\* C3: PillLow is emitted for a bottle exactly when its count is >= 5 in the
\* previous snapshot and < 5 in the current one, once, carrying the current
\* count; so 6 -> 4 emits one PillLow with 4 and a following 4 -> 3 none.
C3_PillLowOnCrossing ==
    \A i \in 1..Len(passLog) : \A b \in 1..3 :
        LET lows == EventsAbout(passLog[i].newEvents, PILL_LOW, b)
        IN  /\ Cardinality(lows) = IF LowCrossing(i, b) THEN 1 ELSE 0
            /\ \A k \in lows :
                  passLog[i].newEvents[k].data.pillCount = passLog[i].cur.bottleCount[b]

C3_Witness ==
    /\ Len(passLog) = 3
    /\ passLog[1].cur.bottleCount[1] = 6
    /\ passLog[2].cur.bottleCount[1] = 4
    /\ passLog[3].cur.bottleCount[1] = 3
    /\ rafQueue = <<>>
    /\ Cardinality(EventsAbout(events, PILL_LOW, 1)) = 1
    /\ \A k \in EventsAbout(events, PILL_LOW, 1) : events[k].data.pillCount = 4

C8_UniqueIds ==
    \A i \in 1..Len(events) : \A j \in 1..Len(events) :
        i # j => events[i].id # events[j].id

\* C7: the deriver has run once for each snapshot the hook was handed, each
\* run compared against the snapshot of the run before it, and the
\* previous-snapshot slot holds what the latest run stored.
C7_OncePerSnapshot ==
    /\ ~renderPending => Len(passLog) = delivered
    /\ \A i \in 1..Len(passLog) :
          passLog[i].prev = IF i = 1 THEN NULL ELSE passLog[i - 1].cur
    /\ previousDataRef = IF passLog = <<>> THEN NULL ELSE passLog[Len(passLog)].cur

\* The new events of a run of passes, latest pass first, each pass's events in
\* the order they were pushed.
RECURSIVE OldestFirst(_)
OldestFirst(passes) ==
    IF passes = <<>>
    THEN <<>>
    ELSE OldestFirst(SubSeq(passes, 1, Len(passes) - 1)) \o passes[Len(passes)].newEvents

RECURSIVE NewestFirst(_)
NewestFirst(passes) ==
    IF passes = <<>>
    THEN <<>>
    ELSE passes[Len(passes)].newEvents \o NewestFirst(SubSeq(passes, 1, Len(passes) - 1))

NonIncreasing(list) ==
    \A i \in 1..Len(list) : \A j \in (i + 1)..Len(list) :
        list[i].timestamp >= list[j].timestamp

FanEvents(list) == {i \in 1..Len(list) : list[i].type \in {FAN_ON, FAN_OFF}}

Missing(x) == x = <<>> \/ x = <<0>>
Incomplete(p) ==
    Missing(p.age) \/ Missing(p.heightCm) \/ Missing(p.weightKg) \/ p.sex = ""

\* C12: without a profile the estimator returns the flat 2000 kcal as its
\* recommended value, no basal metabolic rate, and the no-profile rationale.
C12_NoProfileRecommendsFallback ==
    profile = NULL =>
        /\ calorieNeeds.recommended = <<2000>>
        /\ calorieNeeds.bmr = <<>>
        /\ calorieNeeds.reason = NO_PROFILE_REASON

\* C13: with a profile in which age, height, weight or sex is missing, the
\* estimator returns 1800 for female, 2200 for male and 2000 otherwise as both
\* the recommended and the fallback value, no basal metabolic rate, and the
\* incomplete-profile rationale, which is not the no-profile one.
C13_IncompleteProfileFallback ==
    (profile # NULL /\ Incomplete(profile)) =>
        LET flat == CASE profile.sex = "female" -> 1800
                      [] profile.sex = "male" -> 2200
                      [] OTHER -> 2000
        IN  /\ calorieNeeds.recommended = <<flat>>
            /\ calorieNeeds.fallback = <<flat>>
            /\ calorieNeeds.bmr = <<>>
            /\ calorieNeeds.reason = INCOMPLETE_REASON
            /\ calorieNeeds.reason # NO_PROFILE_REASON

\* A female profile without an age has been loaded and gives 1800.
C13_Witness ==
    /\ profile # NULL
    /\ profile.age = <<>>
    /\ profile.sex = "female"
    /\ profile.heightCm # <<>>
    /\ profile.weightKg # <<>>
    /\ calorieNeeds.recommended = <<1800>>
    /\ calorieNeeds.reason = INCOMPLETE_REASON

\* C14: with age, height, weight and sex all present, the basal metabolic rate
\* is 10 * weight + 6.25 * height - 5 * age + (5 male, -161 female, 0
\* otherwise), reported rounded; the recommended value is that rate times the
\* activity factor (1.2 sedentary or unset, 1.375 light, 1.55 moderate, 1.725
\* active, 1.9 very active), rounded; there is no fallback.  Age 30, male,
\* 175 cm, 70 kg, moderate gives 1649 and 2556.
C14_MifflinStJeor ==
    (profile # NULL /\ ~Incomplete(profile)) =>
        LET sexTerm == CASE profile.sex = "male" -> 5
                         [] profile.sex = "female" -> -161
                         [] OTHER -> 0
            \* four times the rate, so that 6.25 * height is a whole number
            rate4 == 40 * profile.weightKg[1] + 25 * profile.heightCm[1]
                     - 20 * profile.age[1] + 4 * sexTerm
            \* a thousand times the factor
            factor == CASE profile.activityLevel \in {"", "sedentary"} -> 1200
                        [] profile.activityLevel = "light" -> 1375
                        [] profile.activityLevel = "moderate" -> 1550
                        [] profile.activityLevel = "active" -> 1725
                        [] profile.activityLevel = "very_active" -> 1900
            bmr == calorieNeeds.bmr[1]
            recommended == calorieNeeds.recommended[1]
        IN  /\ calorieNeeds.fallback = <<>>
            \* bmr is the integer nearest to rate4 / 4, a half rounded up
            /\ 4 * bmr - 2 <= rate4 /\ rate4 < 4 * bmr + 2
            \* recommended is the integer nearest to rate4 / 4 * factor / 1000
            /\ 4000 * recommended - 2000 <= rate4 * factor
            /\ rate4 * factor < 4000 * recommended + 2000
            /\ (/\ profile.age = <<30>> /\ profile.sex = "male"
                /\ profile.heightCm = <<175>> /\ profile.weightKg = <<70>>
                /\ profile.activityLevel = "moderate")
               => (bmr = 1649 /\ recommended = 2556)

C14_Witness ==
    /\ profile # NULL
    /\ profile.age = <<30>>
    /\ profile.sex = "male"
    /\ profile.heightCm = <<175>>
    /\ profile.weightKg = <<70>>
    /\ profile.activityLevel = "moderate"
    /\ calorieNeeds.bmr = <<1649>>
    /\ calorieNeeds.recommended = <<2556>>

\* The name configured for a bottle, empty when there is no configuration.
ConfiguredName(b) ==
    IF pillConfig = NULL
    THEN <<>>
    ELSE CASE b = 1 -> pillConfig.bottle1
           [] b = 2 -> pillConfig.bottle2
           [] b = 3 -> pillConfig.bottle3

EntriesOf(b) ==
    {k \in 1..Len(pillRecommendations) : pillRecommendations[k].bottleId = b}

\* C15: the recommendation list has exactly one entry, of count 1, for each
\* bottle with a non-empty configured name and none for a bottle whose name is
\* empty or unset, whatever the diseases and the intake are.
C15_OneEntryPerNamedBottle ==
    \A b \in 1..3 :
        IF ConfiguredName(b) # <<>>
        THEN /\ Cardinality(EntriesOf(b)) = 1
             /\ \A k \in EntriesOf(b) :
                   /\ pillRecommendations[k].count = 1
                   /\ pillRecommendations[k].pillName = ConfiguredName(b)
        ELSE EntriesOf(b) = {}

\* Bottle 2 has no name, the other two have one, diseases are selected and
\* food has been eaten: two entries, none for bottle 2.
C15_Witness ==
    /\ pillConfig # NULL
    /\ pillConfig.bottle2 = <<>>
    /\ pillConfig.bottle1 # <<>>
    /\ Len(selectedDiseases) = 3
    /\ Len(selectedFoods) = 2
    /\ Len(pillRecommendations) = 2
    /\ EntriesOf(2) = {}

\* The requirement the intake is compared with, and the intake handed to the
\* recommendation, in thousandths of a kcal.
RequirementKcal ==
    IF calorieNeeds.recommended # <<>>
    THEN calorieNeeds.recommended[1]
    ELSE calorieNeeds.fallback[1]
RatioDefined == totalNutrition.calories > 0 /\ RequirementKcal > 0
RatioHigh == RatioDefined /\ 10 * totalNutrition.calories > 12 * 1000 * RequirementKcal
RatioLow == RatioDefined /\ 10 * totalNutrition.calories < 8 * 1000 * RequirementKcal
HasCaution(rec) == Len(rec.reason) = 2 /\ rec.reason[2] = CAUTION_SUFFIX

\* C16: the ratio is the total kcal over the recommended (else fallback) kcal
\* and counts as 1 when either is zero; the caution is appended to a bottle's
\* justification exactly when the ratio is above 1.2, whichever rule set the
\* justification, and with a ratio of 1 neither the caution nor the low-intake
\* justification appears.
C16_CautionIffRatioHigh ==
    \A k \in 1..Len(pillRecommendations) :
        LET rec == pillRecommendations[k]
        IN  /\ HasCaution(rec) <=> RatioHigh
            /\ Len(rec.reason) = (IF RatioHigh THEN 2 ELSE 1)
            /\ ~RatioDefined =>
                  (~HasCaution(rec) /\ rec.reason[1] # LOW_INTAKE_REASON)

\* The intake is above 1.2 times the requirement and the caution follows a
\* justification set by a disease rule and one left at the default.
C16_Witness ==
    /\ RatioHigh
    /\ \E k \in 1..Len(pillRecommendations) :
          /\ pillRecommendations[k].reason = <<HEART_REASON, CAUTION_SUFFIX>>
    /\ \E k \in 1..Len(pillRecommendations) :
          /\ pillRecommendations[k].reason = <<DEFAULT_REASON, CAUTION_SUFFIX>>

\* The rules that apply to a bottle's name, in their order 1..4.
Applicable(name) ==
    {r \in 1..4 :
        CASE r = 1 -> RatioLow /\ Includes(name, <<"bitamin">>)
          [] r = 2 -> HasHeartIssue(selectedDiseases) /\ Includes(name, <<"omega">>)
          [] r = 3 -> HasBoneIssue(selectedDiseases)
                      /\ Includes(name, <<"bitamin", " ", "D">>)
          [] r = 4 -> HasAnemia(selectedDiseases)
                      /\ (Includes(name, <<"cheolbun">>)
                          \/ Includes(ToLowerCase(name), <<"iron">>))}

RuleReason ==
    <<LOW_INTAKE_REASON, HEART_REASON, BONE_REASON, ANEMIA_REASON>>

\* C17: the rules low intake, cardiovascular, bone, anemia are applied to each
\* bottle in this order; the last one that applies gives the justification and
\* the default is kept when none applies.
C17_LastApplicableRuleWins ==
    \A k \in 1..Len(pillRecommendations) :
        LET rec == pillRecommendations[k]
            rules == Applicable(rec.pillName)
        IN  rec.reason[1] =
                IF rules = {}
                THEN DEFAULT_REASON
                ELSE RuleReason[CHOOSE r \in rules : \A q \in rules : q <= r]

\* Low intake and a cardiovascular disease both apply to bottle 1 and the later
\* rule has given the justification; bottle 2 keeps the low-intake one.
C17_Witness ==
    /\ RatioLow
    /\ \E k \in EntriesOf(1) :
          /\ Applicable(pillRecommendations[k].pillName) = {1, 2}
          /\ pillRecommendations[k].reason = <<HEART_REASON>>
    /\ \E k \in EntriesOf(2) :
          /\ Applicable(pillRecommendations[k].pillName) = {1}
          /\ pillRecommendations[k].reason = <<LOW_INTAKE_REASON>>

StatField == <<"kcal", "carbs", "protein", "fat">>

\* C18: the intake the comparator is given for each nutrient, and the total
\* kcal the recommendation ratio is computed from, are the unrounded sums over
\* the selected foods.
C18_UnroundedTotalsHandedOn ==
    /\ \A i \in 1..4 : nutrientStats[i].intake = SumOver(selectedFoods, StatField[i])
    /\ totalNutrition.calories = SumOver(selectedFoods, "kcal")

InList(list, st) == \E k \in 1..Len(list) : list[k] = st

\* C20: every nutrient is in exactly one class by its percent: below 80
\* deficient, 80 to 120 adequate, above 120 excess; on the analysis page by
\* the colour of its bar, on the nutrition page by the shortage and excess
\* lists.
C20_ThreeClasses ==
    /\ \A i \in 1..4 :
          LET percent == nutrientStats[i].percent
          IN  /\ BarColor(percent) = "#10b981" <=> percent < 80
              /\ BarColor(percent) = "#f59e0b" <=> (80 <= percent /\ percent <= 120)
              /\ BarColor(percent) = "#ef4444" <=> percent > 120
    /\ \A i \in 1..4 :
          LET st == nutritionStats[i]
          IN  /\ InList(shortageList, st) <=> st.percent < 80
              /\ InList(overList, st) <=> st.percent > 120

\* A list in another order of its entries.
Permuted(list, order) == [i \in 1..Len(list) |-> list[order[i]]]
Orders(n) == {f \in [1..n -> 1..n] : \A i, j \in 1..n : f[i] = f[j] => i = j}

C25_GramsNonNegative ==
    /\ \A k \in 1..Len(selectedFoods) : selectedFoods[k].grams >= 0
    /\ \A k \in 1..Len(nutritionFoods) : nutritionFoods[k].grams >= 0

\* What the row holds under a key is a number, or a text that reads as a number
\* once its commas are removed.
Parseable(v) ==
    \/ v.kind = "number"
    \/ v.kind = "string" /\ NumberOf(RemoveCommas(v.text)) # <<>>

ParsedValue(v) == IF v.kind = "number" THEN v.value ELSE NumberOf(RemoveCommas(v.text))[1]

\* The value under the first of the keys that holds a parseable value, else 0.
RECURSIVE FirstParseable(_, _)
FirstParseable(row, keys) ==
    IF keys = <<>> THEN 0
    ELSE IF Parseable(Get(row, Head(keys))) THEN ParsedValue(Get(row, Head(keys)))
    ELSE FirstParseable(row, Tail(keys))

\* C22: nutrient extraction returns the value of the first candidate key, in
\* the order of the candidate list, that holds a number or a text that reads as
\* a number once its thousands separators are removed; anything else under a
\* key counts as absent; with no such key the result is 0.
C22_FirstParseableCandidate ==
    /\ extracted.analyse = FirstParseable(foodRow, AnalyseProteinKeys)
    /\ extracted.nutrition = FirstParseable(foodRow, NutritionProteinKeys)

\* The rules at the given places of the table, in table order.
RECURSIVE RulesAt(_, _, _)
RulesAt(rules, places, i) ==
    IF i > Len(rules) THEN <<>>
    ELSE (IF i \in places THEN <<rules[i]>> ELSE <<>>) \o RulesAt(rules, places, i + 1)

SelectedDisease(rule) ==
    \E o \in 1..Len(DISEASE_OPTIONS) :
        /\ \E k \in 1..Len(dashboardDiseases) : dashboardDiseases[k] = DISEASE_OPTIONS[o].ko
        /\ LowerCasePiece(DISEASE_OPTIONS[o].en) = LowerCasePiece(rule.disease_entity)

ContainsToken(rule) ==
    \E token \in {FoodTokens(foodInput)[k] : k \in 1..Len(FoodTokens(foodInput))} :
        Includes(ToLowerCase(rule.food_entity), token)

FlaggedRisk(rule) ==
    \/ IsOne(rule.is_cause)
    \/ \E word \in {"increase", "risk"} : Includes(ToLowerCase(rule.sentence), <<word>>)

\* A step in which an analysis ran to its result.
AnalysisRan ==
    /\ UNCHANGED <<diseaseRules, loadingRules, rulesError, foodInput, dashboardDiseases>>
    /\ toast'.message \in {NO_RISK, RISK_FOUND}

\* C23: an analysis leaves as its result exactly the rules of the table, in
\* table order, whose disease is a selected disease, whose food name contains
\* one of the entered food tokens (compared in lower case), and that are
\* flagged as a risk (is_cause reads as 1, or the sentence contains "increase"
\* or "risk").
C23_ExactlyTheRiskRules ==
    [][AnalysisRan =>
         riskResults' =
            RulesAt(diseaseRules,
                    {i \in 1..Len(diseaseRules) :
                        /\ SelectedDisease(diseaseRules[i])
                        /\ ContainsToken(diseaseRules[i])
                        /\ FlaggedRisk(diseaseRules[i])},
                    1)]_vars

\* An analysis has found four of the six rules: one by its flag, two by their
\* sentence, one by both a flag and a food written with a capital.
C23_Witness ==
    /\ Len(diseaseRules) = 6
    /\ Len(riskResults) = 4
    /\ riskResults[1] = diseaseRules[1]
    /\ riskResults[4] = diseaseRules[6]
    /\ toast.message = RISK_FOUND

\* C24: with a rule table that was loaded and is empty the risk result is
\* empty, with no pill configuration the recommendation list is empty, and
\* neither is reported as an error.
C24_EmptyTablesNoError ==
    /\ (diseaseRules = <<>> /\ ~loadingRules /\ ~rulesError) =>
          /\ riskResults = <<>>
          /\ ~(toast.kind = "error" /\ toast.message = RULES_NOT_READY)
    /\ pillConfig = NULL => pillRecommendations = <<>>

\* C26: the placeholder the hook holds while the path has no data is never a
\* snapshot of the deriver: no pass compares a snapshot that was delivered
\* against the placeholder and derives events from the difference.
C26_PlaceholderNeverCompared ==
    \A i \in 1..Len(passLog) :
        (passLog[i].prev = InitialValue /\ passLog[i].cur \in Snapshots) =>
            passLog[i].newEvents = <<>>

\* C30: a callback of a subscription that was torn down changes none of data,
\* loading and error; retry leaves error null and loading true; and loading
\* ends only with a callback of the current subscription.
C30_OldCallbacksIgnored ==
    [][ /\ staleCalls' # staleCalls => UNCHANGED <<data, loading, error>>
        /\ retryCount' # retryCount => (~error' /\ loading')
        /\ (loading /\ ~loading') =>
              /\ staleCalls' = staleCalls
              /\ mounted /\ isSubscribed[Len(isSubscribed)]
              /\ delivered' # delivered \/ error' ]_vars

\* After a retry, while the new subscription has not called back, callbacks of
\* the old subscription have been invoked.
C30_Witness ==
    /\ mounted
    /\ retryCount = 1
    /\ staleCalls = 2
    /\ loading
    /\ ~error
    /\ data \in Snapshots

\* C27: whatever else updates the stored count of a bottle, a completed refill
\* leaves it at no more than the capacity, and a refill requested while the
\* card shows the capacity or more writes nothing.
C27_RefillWithinCapacity ==
    /\ storedCount <= MaxPills
    /\ \A c \in Clients : refill[c].pc # "idle" => refill[c].amount > 0

\* C28: every dispense request of a bottle card asks for at least 1 and at most
\* the pill count the card showed at the click.
C28_DispenseCountInRange ==
    control # NULL => (1 <= control.count /\ control.count <= control.pillCountAtClick)

\* The supplement the running call is at, and its slot.
AtSupplement == drop.items[drop.i]

AtSlot == mapPillNameToSlotId(AtSupplement.pillName)

\* The call is at a supplement that maps to a slot and is about to read it.
ReadsSlot ==
    /\ drop.pc = "loop"
    /\ drop.i <= Len(drop.items)
    /\ AtSlot # NoSlot

\* C29: for a supplement that maps to a slot, the call lowers the slot's
\* stored count by exactly 1 when the count is positive; when it is 0 or less
\* (or the slot holds nothing) it writes nothing and appends the supplement to
\* the insufficient list; no write of the call leaves a negative count.
C29_LowersByOneOrReports ==
    [][ /\ (ReadsSlot /\ CurrentOf(AtSlot) > 0) =>
              /\ drop'.pc = "set"
              /\ drop'.insufficient = drop.insufficient
              /\ slots' = slots
        /\ (ReadsSlot /\ CurrentOf(AtSlot) <= 0) =>
              /\ slots' = slots
              /\ drop'.pc = "loop"
              /\ drop'.insufficient =
                    Append(drop.insufficient,
                           [slotId |-> AtSlot, pillName |-> AtSupplement.pillName,
                            nutrientLabel |-> AtSupplement.nutrientLabel])
        /\ drop.pc = "set" =>
              /\ CurrentOf(AtSlot) > 0
              /\ slots' = [slots EXCEPT ![AtSlot] = <<CurrentOf(AtSlot) - 1>>]
              /\ drop'.insufficient = drop.insufficient
        /\ drop.pc \notin {"idle", "done"} =>
              \A slot \in SlotIds :
                  slots'[slot] # slots[slot] => (slots'[slot] # <<>> /\ slots'[slot][1] >= 0)
      ]_vars

\* A call for three supplements has finished: the iron slot went from 1 to 0
\* for the first, the vitamin C slot from 2 to 1 for the second, and the third,
\* iron again, is reported as insufficient.
C29_Witness ==
    /\ drop.pc = "done"
    /\ Len(drop.items) = 3
    /\ slots["iron"] = <<0>>
    /\ slots["vitamin_c"] = <<1>>
    /\ Len(drop.insufficient) = 1
    /\ drop.insufficient[1].slotId = "iron"
    /\ drop.insufficient[1].pillName = <<"cheolbun", " plus">>
    /\ Len(lastDrop) = 3

====
